---------------------------- MODULE Spec2Model ----------------------------
(***************************************************************************)
(* A model of the JSQL / SecureLocalDB in-memory query engine.             *)
(*                                                                         *)
(* Text is modelled as a sequence of whitespace-separated tokens; a token  *)
(* is a sequence of chunks (a chunk is one character, or one keyword /     *)
(* identifier spelled as a single chunk).  Quote characters are chunks of  *)
(* the token they delimit.  JavaScript values are tagged records.          *)
(***************************************************************************)
EXTENDS Integers, Sequences, FiniteSets, TLC

VARIABLES data, schemas, uuids, sql, params, ret, old, stream, arg, out, heap, held

vars == <<data, schemas, uuids, sql, params, ret, old, stream, arg, out, heap, held>>

-----------------------------------------------------------------------------
(* Bounds of the model *)

MaxRows == 3

MaxComps == 3

\* the longest field value and the longest LIKE pattern, in characters
MaxText == 3

-----------------------------------------------------------------------------
(* JavaScript values *)

Num(n) == [t |-> "num", n |-> n, d |-> 1, s |-> <<>>]

Str(cs) == [t |-> "str", n |-> 0, d |-> 1, s |-> cs]

Bool(b) == [t |-> "bool", n |-> IF b THEN 1 ELSE 0, d |-> 1, s |-> <<>>]

Null == [t |-> "null", n |-> 0, d |-> 1, s |-> <<>>]

Undef == [t |-> "undef", n |-> 0, d |-> 1, s |-> <<>>]

NaN == [t |-> "nan", n |-> 0, d |-> 1, s |-> <<>>]

RECURSIVE Gcd(_, _)
Gcd(a, b) == IF b = 0 THEN a ELSE Gcd(b, a % b)

Abs(n) == IF n < 0 THEN -n ELSE n

\* the number n / d (d > 0), in lowest terms
Ratio(n, d) ==
  LET g == Gcd(Abs(n), d)
  IN  [t |-> "num", n |-> n \div g, d |-> d \div g, s |-> <<>>]

\* row[key]: undefined when the row has no such key
Get(row, key) == IF key \in DOMAIN row THEN row[key] ELSE Undef

\* {...a, ...b} and Object.assign(a, b)
Merge(a, b) == [k \in DOMAIN a \cup DOMAIN b |-> IF k \in DOMAIN b THEN b[k] ELSE a[k]]

TypeOf(v) ==
  CASE v.t \in {"num", "nan"} -> "number"
    [] v.t = "str" -> "string"
    [] v.t = "bool" -> "boolean"
    [] v.t = "undef" -> "undefined"
    [] OTHER -> "object"

\* !v is false
Truthy(v) ==
  CASE v.t = "num" -> v.n # 0
    [] v.t = "str" -> v.s # <<>>
    [] v.t = "bool" -> v.n = 1
    [] OTHER -> FALSE

Digits == {"0", "1", "2", "3", "4", "5", "6", "7", "8", "9"}

DigitVal(c) ==
  CASE c = "0" -> 0 [] c = "1" -> 1 [] c = "2" -> 2 [] c = "3" -> 3 [] c = "4" -> 4
    [] c = "5" -> 5 [] c = "6" -> 6 [] c = "7" -> 7 [] c = "8" -> 8 [] c = "9" -> 9

RECURSIVE Decimal(_)
Decimal(cs) ==
  IF cs = <<>> THEN 0
  ELSE 10 * Decimal(SubSeq(cs, 1, Len(cs) - 1)) + DigitVal(cs[Len(cs)])

IsNumeral(cs) == \A i \in 1..Len(cs) : cs[i] \in Digits

\* Number(string): the empty string is 0, a digit string its value, anything else NaN
StringToNumber(cs) == IF IsNumeral(cs) THEN Num(Decimal(cs)) ELSE NaN

\* Number(v)
ToNumber(v) ==
  CASE v.t = "num" -> v
    [] v.t = "str" -> StringToNumber(v.s)
    [] v.t = "bool" -> Num(v.n)
    [] v.t = "null" -> Num(0)
    [] OTHER -> NaN

\* a === b
StrictEq(a, b) == a.t # "nan" /\ a = b

\* a == b, the abstract equality comparison
LooseEq(a, b) ==
  CASE a.t = b.t -> StrictEq(a, b)
    [] a.t \in {"null", "undef"} /\ b.t \in {"null", "undef"} -> TRUE
    [] a.t \in {"null", "undef"} \/ b.t \in {"null", "undef"} -> FALSE
    [] OTHER -> LET x == ToNumber(a)
                    y == ToNumber(b)
                IN  x.t = "num" /\ y.t = "num" /\ x = y

\* UTF-16 code units of the characters the model's strings are made of
CharCode(c) ==
  CASE c = " " -> 32 [] c = "%" -> 37 [] c = "'" -> 39 [] c = "." -> 46
    [] c \in Digits -> 48 + DigitVal(c)
    [] c = "A" -> 65 [] c = "B" -> 66 [] c = "C" -> 67 [] c = "X" -> 88
    [] c = "_" -> 95
    [] c = "a" -> 97 [] c = "b" -> 98 [] c = "c" -> 99 [] c = "x" -> 120
    [] OTHER -> 0

RECURSIVE StrLess(_, _)
StrLess(x, y) ==
  IF y = <<>> THEN FALSE
  ELSE IF x = <<>> THEN TRUE
  ELSE IF CharCode(x[1]) # CharCode(y[1]) THEN CharCode(x[1]) < CharCode(y[1])
  ELSE StrLess(Tail(x), Tail(y))

\* a < b, the abstract relational comparison
Less(a, b) ==
  IF a.t = "str" /\ b.t = "str" THEN StrLess(a.s, b.s)
  ELSE LET x == ToNumber(a)
           y == ToNumber(b)
       IN  x.t = "num" /\ y.t = "num" /\ x.n * y.d < y.n * x.d

\* a <= b
LessEq(a, b) ==
  IF a.t = "str" /\ b.t = "str" THEN ~StrLess(b.s, a.s)
  ELSE LET x == ToNumber(a)
           y == ToNumber(b)
       IN  x.t = "num" /\ y.t = "num" /\ x.n * y.d <= y.n * x.d

-----------------------------------------------------------------------------
(* Text *)

Quotes == {"'", "\""}

\* characters that \w does not match
NonWord == Quotes \cup {" ", "%", ".", ",", "(", ")", "*", "?", "=", "!=", "<", ">", "<=", ">="}

\* the token matches ^\w+$
IsWord(tok) == tok # <<>> /\ \A i \in 1..Len(tok) : tok[i] \notin NonWord

\* an identifier or keyword, spelled as one chunk
W(w) == <<w>>

\* the name a \w+ token spells (identifiers are one chunk)
Name(tok) == tok[1]

RECURSIVE JoinTokens(_)
JoinTokens(toks) ==
  IF toks = <<>> THEN <<>>
  ELSE IF Len(toks) = 1 THEN toks[1]
  ELSE toks[1] \o <<" ">> \o JoinTokens(Tail(toks))

\* positions of the tokens equal to kw
Positions(toks, kw) == {i \in 1..Len(toks) : toks[i] = kw}

RECURSIVE SplitOn(_, _)
\* str.split(/\s+KW\s+/i): the runs of tokens between the occurrences of kw
\* that have whitespace (a token boundary) on both sides
SplitOn(toks, kw) ==
  LET at == {i \in 2..Len(toks) - 1 : toks[i] = kw}
  IN  IF at = {} THEN <<toks>>
      ELSE LET i == CHOOSE j \in at : \A k \in at : j <= k
           IN  <<SubSeq(toks, 1, i - 1)>> \o SplitOn(SubSeq(toks, i + 1, Len(toks)), kw)


-----------------------------------------------------------------------------
(* SecureLocalDB: literals and predicates *)

\* v.replace(/^['"]|['"]$/g, '')
StripQuotes(v) ==
  LET a == IF v # <<>> /\ v[1] \in Quotes THEN Tail(v) ELSE v
  IN  IF a # <<>> /\ a[Len(a)] \in Quotes THEN SubSeq(a, 1, Len(a) - 1) ELSE a

_parseValue(v) ==
  IF IsNumeral(v) THEN Num(Decimal(v))
  ELSE IF v = <<"true">> THEN Bool(TRUE)
  ELSE IF v = <<"false">> THEN Bool(FALSE)
  ELSE Str(StripQuotes(v))

\* the group (.+?) of  ["']?(.+?)["']?$  matched against the text raw
LazyLiteral(raw) ==
  LET a == IF Len(raw) >= 2 /\ raw[1] \in Quotes THEN Tail(raw) ELSE raw
  IN  IF Len(a) >= 2 /\ a[Len(a)] \in Quotes THEN SubSeq(a, 1, Len(a) - 1) ELSE a

CompareOps == {"=", "!=", "<=", ">=", "<", ">"}

\* cond.match(/^(\w+)\s*(=|!=|<=|>=|<|>)\s*["']?(.+?)["']?$/) succeeds
ComparisonMatch(cond) ==
  /\ Len(cond) >= 3
  /\ IsWord(cond[1])
  /\ Len(cond[2]) = 1
  /\ cond[2][1] \in CompareOps

\* the switch (op) of _evalCondition
CompareOp(field, op, cmp) ==
  CASE op = "=" -> LooseEq(field, cmp)
    [] op = "!=" -> ~LooseEq(field, cmp)
    [] op = "<" -> Less(field, cmp)
    [] op = ">" -> Less(cmp, field)
    [] op = "<=" -> LessEq(field, cmp)
    [] op = ">=" -> LessEq(cmp, field)
    [] OTHER -> FALSE

\* the comparison branch of _evalCondition
EvalComparison(row, cond) ==
  IF ~ComparisonMatch(cond) THEN FALSE
  ELSE LET val == LazyLiteral(JoinTokens(SubSeq(cond, 3, Len(cond))))
       IN  CompareOp(Get(row, Name(cond[1])), cond[2][1], _parseValue(val))

\* cond.includes(' IN (SELECT')
HasInSelect(cond) ==
  \E i \in 2..Len(cond) - 1 :
    cond[i] = W("IN") /\ Len(cond[i + 1]) >= 2 /\ SubSeq(cond[i + 1], 1, 2) = <<"(", "SELECT">>

\* cond.match(/^(\w+)\s+IN\s+\(SELECT\s+(\w+)\s+FROM\s+(\w+)(?:\s+WHERE\s+(.+))?\)$/i)
InSelectMatch(cond) ==
  /\ Len(cond) >= 6
  /\ IsWord(cond[1]) /\ cond[2] = W("IN") /\ cond[3] = <<"(", "SELECT">>
  /\ IsWord(cond[4]) /\ cond[5] = W("FROM")
  /\ \/ Len(cond) = 6 /\ Len(cond[6]) = 2 /\ IsWord(W(cond[6][1])) /\ cond[6][2] = ")"
     \/ /\ Len(cond) >= 8 /\ IsWord(cond[6]) /\ cond[7] = W("WHERE")
        /\ cond[Len(cond)][Len(cond[Len(cond)])] = ")"
        /\ Len(cond) > 8 \/ Len(cond[8]) >= 2

\* the capture subWhere, without the closing parenthesis: empty when the
\* subquery has no WHERE
InSelectWhere(cond) ==
  IF Len(cond) = 6 THEN <<>>
  ELSE LET last == cond[Len(cond)]
       IN  SubSeq(cond, 8, Len(cond) - 1)
             \o (IF Len(last) = 1 THEN <<>> ELSE <<SubSeq(last, 1, Len(last) - 1)>>)

\* Predicates answer "T", "F", or "E" when evaluating them throws.
RECURSIVE _evalCondition(_, _, _)
RECURSIVE EveryAnd(_, _, _)
RECURSIVE SomeOr(_, _, _)
RECURSIVE FilterRows(_, _, _)

\* orParts.some(expr => this._evalCondition(row, expr.trim()))
SomeOr(db, row, orParts) ==
  IF orParts = <<>> THEN "F"
  ELSE LET Rest(r) == IF r = "F" THEN SomeOr(db, row, Tail(orParts)) ELSE r
       IN  Rest(_evalCondition(db, row, orParts[1]))

\* andParts.every(cond => cond.split(/\s+OR\s+/i).some(...))
EveryAnd(db, row, andParts) ==
  IF andParts = <<>> THEN "T"
  ELSE LET Rest(r) == IF r = "T" THEN EveryAnd(db, row, Tail(andParts)) ELSE r
       IN  Rest(SomeOr(db, row, SplitOn(andParts[1], W("OR"))))

\* AND binding tighter than OR: an OR of AND-groups
ParseWhereOrFirst(db, str, row) ==
  LET segs == SplitOn(str, W("OR"))
      AllOf(seg) == LET parts == SplitOn(seg, W("AND"))
                    IN  \A j \in 1..Len(parts) : _evalCondition(db, row, parts[j]) = "T"
  IN  IF \E i \in 1..Len(segs) : AllOf(segs[i]) THEN "T" ELSE "F"

\* _parseWhere(str)(row)
_parseWhere(db, str, row) == EveryAnd(db, row, SplitOn(str, W("AND")))

\* rows.filter(whereFn) with whereFn = _parseWhere(str); an empty str stands for
\* the default whereFn, () => true
FilterRows(db, rows, str) ==
  IF rows = <<>> THEN [err |-> FALSE, rows |-> <<>>]
  ELSE LET Keep(r, rest) ==
             IF r = "E" \/ rest.err THEN [err |-> TRUE, rows |-> <<>>]
             ELSE [err |-> FALSE, rows |-> IF r = "T" THEN <<rows[1]>> \o rest.rows ELSE rest.rows]
       IN  Keep(IF str = <<>> THEN "T" ELSE _parseWhere(db, str, rows[1]),
                FilterRows(db, Tail(rows), str))

_evalCondition(db, row, cond) ==
  IF HasInSelect(cond)
  THEN IF ~InSelectMatch(cond) THEN "F"
       ELSE LET subTable == Name(cond[6])
            IN  IF subTable \notin DOMAIN db THEN "E"
                ELSE LET Includes(x, y) == StrictEq(x, y) \/ (x.t = "nan" /\ y.t = "nan")
                         In(subData) ==
                           IF subData.err THEN "E"
                           ELSE IF \E i \in 1..Len(subData.rows) :
                                     Includes(Get(subData.rows[i], Name(cond[4])),
                                              Get(row, Name(cond[1])))
                                THEN "T" ELSE "F"
                     IN  In(FilterRows(db, db[subTable], InSelectWhere(cond)))
  ELSE IF EvalComparison(row, cond) THEN "T" ELSE "F"

-----------------------------------------------------------------------------
(* SecureLocalDB.query: recognising the statement *)

\* the token at position i, or the empty text past the end
At(toks, i) == IF i \in 1..Len(toks) THEN toks[i] ELSE <<>>

\* the tokens from position i on
From(toks, i) == SubSeq(toks, i, Len(toks))

\* \w+ matches a prefix of the token
WordPrefix(tok) == tok # <<>> /\ tok[1] \notin NonWord

\* (\w+)\.(\w+)
IsQualified(tok) ==
  Len(tok) >= 3 /\ tok[1] \notin NonWord /\ tok[2] = "." /\ tok[3] \notin NonWord

RECURSIVE Flat(_)
\* the string the chunks spell
Flat(cs) == IF cs = <<>> THEN "" ELSE cs[1] \o Flat(Tail(cs))

\* str.trim()
RECURSIVE Trim(_)
Trim(cs) ==
  IF cs # <<>> /\ cs[1] = " " THEN Trim(Tail(cs))
  ELSE IF cs # <<>> /\ cs[Len(cs)] = " " THEN Trim(SubSeq(cs, 1, Len(cs) - 1))
  ELSE cs

JoinTypes == {"INNER", "LEFT", "RIGHT", "FULL"}

\* (?:\s+(INNER|LEFT|RIGHT|FULL)?\s*JOIN\s+(\w+)\s+ON\s+(\w+)\.(\w+)\s*=\s*(\w+)\.(\w+))?
JoinGroup(rest) ==
  LET k == IF Len(At(rest, 1)) = 1 /\ At(rest, 1)[1] \in JoinTypes THEN 1 ELSE 0
      ok == /\ At(rest, k + 1) = W("JOIN")
            /\ WordPrefix(At(rest, k + 2))
            /\ At(rest, k + 3) = W("ON")
            /\ IsQualified(At(rest, k + 4))
            /\ At(rest, k + 5) = W("=")
            /\ IsQualified(At(rest, k + 6))
  IN  IF ok
      THEN [len |-> k + 6, joinTypeRaw |-> IF k = 1 THEN rest[1][1] ELSE "",
            tableB |-> rest[k + 2][1],
            aAlias |-> rest[k + 4][1], aKey |-> rest[k + 4][3],
            bAlias |-> rest[k + 6][1], bKey |-> rest[k + 6][3]]
      ELSE [len |-> 0, joinTypeRaw |-> "", tableB |-> "",
            aAlias |-> "", aKey |-> "", bAlias |-> "", bKey |-> ""]

\* The groups after a lazy capture are all optional and the pattern has no $:
\* whatever text follows, the rest of the pattern matches it.
OptionalTailMatches(toks) == TRUE

\* (.*?) followed by optional groups only: the shortest text after which the
\* rest of the pattern matches
LazyCapture(toks) ==
  LET fits == {k \in 0..Len(toks) : OptionalTailMatches(From(toks, k + 1))}
      k == CHOOSE n \in fits : \A o \in fits : n <= o
  IN  SubSeq(toks, 1, k)

\* (?:\s+WHERE\s+(.*?))? and (?:\s+HAVING\s+(.*?))?  The keyword needs
\* whitespace after it, which \s+ takes whole, so that no later group, each
\* of which starts with \s+, can match behind an empty capture.
LazyGroup(rest, kw) ==
  IF At(rest, 1) = W(kw) /\ Len(rest) >= 2
  THEN [hit |-> TRUE, clause |-> LazyCapture(From(rest, 2))]
  ELSE [hit |-> FALSE, clause |-> <<>>]

\* (?:\s+GROUP\s+BY\s+(\w+))?
GroupGroup(rest) ==
  IF At(rest, 1) = W("GROUP") /\ At(rest, 2) = W("BY") /\ WordPrefix(At(rest, 3))
  THEN [len |-> 3, groupBy |-> rest[3][1]]
  ELSE [len |-> 0, groupBy |-> ""]

\* (?:\s+ORDER\s+BY\s+(\w+)(?:\s+(ASC|DESC))?)?
OrderGroup(rest) ==
  IF At(rest, 1) = W("ORDER") /\ At(rest, 2) = W("BY") /\ WordPrefix(At(rest, 3))
  THEN IF At(rest, 4) \in {W("ASC"), W("DESC")}
       THEN [len |-> 4, orderBy |-> rest[3][1], orderDir |-> rest[4][1]]
       ELSE [len |-> 3, orderBy |-> rest[3][1], orderDir |-> ""]
  ELSE [len |-> 0, orderBy |-> "", orderDir |-> ""]

\* the longest prefix of digits
RECURSIVE DigitPrefix(_)
DigitPrefix(cs) ==
  IF cs # <<>> /\ cs[1] \in Digits THEN <<cs[1]>> \o DigitPrefix(Tail(cs)) ELSE <<>>

\* (?:\s+LIMIT\s+(\d+))?  ; limit -1 stands for no capture
LimitGroup(rest) ==
  IF At(rest, 1) = W("LIMIT") /\ DigitPrefix(At(rest, 2)) # <<>>
  THEN [len |-> 2, limit |-> Decimal(DigitPrefix(rest[2]))]
  ELSE [len |-> 0, limit |-> -1]

\* sql.match(select): the leftmost SELECT, anywhere in the text with
\* whitespace after it, from which  SELECT\s+(.+?)\s+FROM\s+(\w+)  matches, the
\* fields up to the first FROM that a name follows, and then each optional
\* group in turn; a group needs whitespace straight after what came before
MatchSelect(s) ==
  LET froms(i) == {j \in i + 2..Len(s) - 1 : s[j] = W("FROM") /\ WordPrefix(s[j + 1])}
      starts == {i \in 1..Len(s) : s[i][Len(s[i])] = "SELECT" /\ froms(i) # {}}
  IN  IF starts = {} THEN [ok |-> FALSE]
      ELSE
        LET i == CHOOSE x \in starts : \A y \in starts : x <= y
            j == CHOOSE x \in froms(i) : \A y \in froms(i) : x <= y
            r1 == IF IsWord(s[j + 1]) THEN From(s, j + 2) ELSE <<>>
            jn == JoinGroup(r1)
            r2 == From(r1, jn.len + 1)
            wh == LazyGroup(r2, "WHERE")
            r3 == IF wh.hit THEN <<>> ELSE r2
            gr == GroupGroup(r3)
            r4 == From(r3, gr.len + 1)
            hv == LazyGroup(r4, "HAVING")
            r5 == IF hv.hit THEN <<>> ELSE r4
            ob == OrderGroup(r5)
            r6 == From(r5, ob.len + 1)
            lm == LimitGroup(r6)
        IN  [ok |-> TRUE,
             fieldsRaw |-> SubSeq(s, i + 1, j - 1),
             tableA |-> s[j + 1][1],
             joinTypeRaw |-> jn.joinTypeRaw, tableB |-> jn.tableB,
             aAlias |-> jn.aAlias, aKey |-> jn.aKey,
             bAlias |-> jn.bAlias, bKey |-> jn.bKey,
             whereClause |-> wh.clause,
             groupBy |-> gr.groupBy,
             havingClause |-> hv.clause,
             orderBy |-> ob.orderBy, orderDir |-> ob.orderDir,
             limit |-> lm.limit]

-----------------------------------------------------------------------------
(* SecureLocalDB.query: running a SELECT *)

RECURSIVE NumText(_)
\* String(n) for a natural number n
NumText(n) ==
  IF n < 10 THEN <<CHOOSE c \in Digits : DigitVal(c) = n>>
  ELSE NumText(n \div 10) \o <<CHOOSE c \in Digits : DigitVal(c) = n % 10>>

\* what the replacer of applyParams returns for val
ParamText(val) ==
  CASE val.t = "str" -> <<"\"">> \o val.s \o <<"\"">>
    [] val.t = "num" -> NumText(val.n)
    [] val.t = "bool" -> IF val.n = 1 THEN <<"true">> ELSE <<"false">>
    [] val.t = "null" -> <<"null">>
    [] val.t = "nan" -> <<"NaN">>
    [] OTHER -> <<"undefined">>

\* applyParams(str): the k-th ? of this fragment becomes params[k - 1]
applyParams(str, ps) ==
  [k \in 1..Len(str) |->
     IF str[k] = W("?")
     THEN LET n == Cardinality({j \in 1..k : str[j] = W("?")})
          IN  ParamText(IF n <= Len(ps) THEN ps[n] ELSE Undef)
     ELSE str[k]]

\* the text of a field expression, as a key
FlatText(toks) == Flat(JoinTokens(toks))

\* one element of parsedFields, from f.match(/(.+?)\s+AS\s+(\w+)$/i)
ParseField(f) ==
  IF Len(f) >= 3 /\ f[Len(f) - 1] = W("AS") /\ IsWord(f[Len(f)])
  THEN [expr |-> FlatText(SubSeq(f, 1, Len(f) - 2)),
        chunks |-> JoinTokens(SubSeq(f, 1, Len(f) - 2)),
        alias |-> FlatText(<<f[Len(f)]>>)]
  ELSE [expr |-> FlatText(f), chunks |-> JoinTokens(f), alias |-> FlatText(f)]

RECURSIVE SplitCommas(_)
\* str.split(','), each part trimmed
SplitCommas(toks) ==
  LET at == {k \in 1..Len(toks) : toks[k] = W(",")}
  IN  IF at = {} THEN <<toks>>
      ELSE LET k == CHOOSE x \in at : \A y \in at : x <= y
           IN  <<SubSeq(toks, 1, k - 1)>> \o SplitCommas(From(toks, k + 1))

\* fieldsRaw.split(',').map(f => f.trim()), parsed
ParsedFields(fieldsRaw) ==
  LET parts == SplitCommas(fieldsRaw)
  IN  [k \in 1..Len(parts) |-> ParseField(parts[k])]

\* _prefixKeys(obj, prefix)
_prefixKeys(obj, prefix) ==
  LET key(nk) == CHOOSE k \in DOMAIN obj : prefix \o "." \o k = nk
  IN  [nk \in {prefix \o "." \o k : k \in DOMAIN obj} |-> obj[key(nk)]]

\* a copy of example that keeps example's values
CopyObject(example) == example

\* _nullObject(example)
_nullObject(example) == [k \in DOMAIN example |-> Null]

\* right[0], or the default {} of _nullObject when there is none
FirstOrEmpty(rows) == IF rows = <<>> THEN [x \in {} |-> Null] ELSE rows[1]

\* this.data[table] || []
TableOrEmpty(db, table) == IF table \in DOMAIN db THEN db[table] ELSE <<>>

\* a join that emits its second pass, the null-padded right rows, for
\* every kind of join and its left-pass padding for none
JoinRowsPaddingRight(left, right, m) ==
  LET leftAlias == IF m.aAlias = "" THEN m.tableA ELSE m.aAlias
      rightAlias == IF m.bAlias = "" THEN m.tableB ELSE m.bAlias
      hit(i, j) == StrictEq(Get(left[i], m.aKey), Get(right[j], m.bKey))
      RECURSIVE Pairs(_, _)
      Pairs(i, j) ==
        IF i > Len(left) THEN <<>>
        ELSE IF j > Len(right) THEN Pairs(i + 1, 1)
        ELSE (IF hit(i, j)
              THEN <<Merge(_prefixKeys(left[i], leftAlias), _prefixKeys(right[j], rightAlias))>>
              ELSE <<>>) \o Pairs(i, j + 1)
      RECURSIVE RightPass(_)
      RightPass(j) ==
        IF j > Len(right) THEN <<>>
        ELSE (IF \E i \in 1..Len(left) : hit(i, j) THEN <<>>
              ELSE <<Merge(_prefixKeys(_nullObject(FirstOrEmpty(left)), leftAlias),
                           _prefixKeys(right[j], rightAlias))>>) \o RightPass(j + 1)
  IN  Pairs(1, 1) \o RightPass(1)

\* the join branch: the left pass, then the pass over the unmatched right rows
JoinRows(left, right, m) ==
  LET joinType == IF m.joinTypeRaw = "" THEN "INNER" ELSE m.joinTypeRaw
      leftAlias == IF m.aAlias = "" THEN m.tableA ELSE m.aAlias
      rightAlias == IF m.bAlias = "" THEN m.tableB ELSE m.bAlias
      hit(i, j) == StrictEq(Get(left[i], m.aKey), Get(right[j], m.bKey))
      RECURSIVE Pairs(_, _)
      Pairs(i, j) ==
        IF j > Len(right) THEN <<>>
        ELSE (IF hit(i, j)
              THEN <<Merge(_prefixKeys(left[i], leftAlias), _prefixKeys(right[j], rightAlias))>>
              ELSE <<>>) \o Pairs(i, j + 1)
      RECURSIVE LeftPass(_)
      LeftPass(i) ==
        IF i > Len(left) THEN <<>>
        ELSE (IF \E j \in 1..Len(right) : hit(i, j) THEN Pairs(i, 1)
              ELSE IF joinType \in {"LEFT", "FULL"}
              THEN <<Merge(_prefixKeys(left[i], leftAlias),
                           _prefixKeys(_nullObject(FirstOrEmpty(right)), rightAlias))>>
              ELSE <<>>) \o LeftPass(i + 1)
      RECURSIVE RightPass(_)
      RightPass(j) ==
        IF j > Len(right) THEN <<>>
        ELSE (IF \E i \in 1..Len(left) : hit(i, j) THEN <<>>
              ELSE <<Merge(_prefixKeys(_nullObject(FirstOrEmpty(left)), leftAlias),
                           _prefixKeys(right[j], rightAlias))>>) \o RightPass(j + 1)
  IN  LeftPass(1) \o (IF joinType \in {"RIGHT", "FULL"} THEN RightPass(1) ELSE <<>>)

\* the keys of the Map groups, in order of first appearance
RECURSIVE GroupKeys(_, _)
GroupKeys(rows, groupBy) ==
  IF rows = <<>> THEN <<>>
  ELSE LET before == GroupKeys(SubSeq(rows, 1, Len(rows) - 1), groupBy)
           key == Get(rows[Len(rows)], groupBy)
       IN  IF \E k \in 1..Len(before) : before[k] = key THEN before ELSE Append(before, key)

\* a + b and a / n on numbers
Plus(a, b) == Ratio(a.n * b.d + b.n * a.d, a.d * b.d)

\* Number(v) || 0
NumberOrZero(v) == LET x == ToNumber(v) IN IF x.t = "num" THEN x ELSE Num(0)

RECURSIVE SumOf(_, _)
\* groupRows.reduce((acc, r) => acc + (Number(r[arg]) || 0), 0)
SumOf(groupRows, a) ==
  IF groupRows = <<>> THEN Num(0)
  ELSE Plus(SumOf(SubSeq(groupRows, 1, Len(groupRows) - 1), a),
            NumberOrZero(Get(groupRows[Len(groupRows)], a)))

AggFns == {"COUNT", "SUM", "AVG"}

\* expr.match(/(COUNT|SUM|AVG)\((.*?)\)/i): the first function name that an
\* opening and, later, a closing parenthesis follow
AggMatch(chunks) ==
  LET at == {i \in 1..Len(chunks) - 2 :
               /\ chunks[i] \in AggFns
               /\ chunks[i + 1] = "("
               /\ \E j \in i + 2..Len(chunks) : chunks[j] = ")"}
  IN  IF at = {} THEN [ok |-> FALSE, fn |-> "", arg |-> ""]
      ELSE LET i == CHOOSE x \in at : \A y \in at : x <= y
               close == {j \in i + 2..Len(chunks) : chunks[j] = ")"}
               j == CHOOSE x \in close : \A y \in close : x <= y
           IN  [ok |-> TRUE, fn |-> chunks[i], arg |-> Flat(Trim(SubSeq(chunks, i + 2, j - 1)))]

\* the value the switch (fn) writes under the alias
Aggregate(fn, a, groupRows) ==
  CASE fn = "COUNT" -> Num(Len(groupRows))
    [] fn = "SUM" -> SumOf(groupRows, a)
    [] fn = "AVG" -> LET sum == SumOf(groupRows, a)
                     IN  Ratio(sum.n, sum.d * Len(groupRows))

\* one output row of the grouping: the key, then each aggregate field in turn
RECURSIVE GroupResult(_, _, _, _)
GroupResult(groupBy, groupKey, groupRows, fields) ==
  IF fields = <<>> THEN (groupBy :> groupKey)
  ELSE LET result == GroupResult(groupBy, groupKey, groupRows, SubSeq(fields, 1, Len(fields) - 1))
           f == fields[Len(fields)]
           agg == AggMatch(f.chunks)
       IN  IF f.expr = groupBy \/ ~agg.ok THEN result
           ELSE Merge(result, f.alias :> Aggregate(agg.fn, agg.arg, groupRows))

\* the rows after grouping: one per key of the Map
GroupBy(rows, groupBy, fields) ==
  LET keys == GroupKeys(rows, groupBy)
      members(key) == SelectSeq(rows, LAMBDA r : Get(r, groupBy) = key)
  IN  [k \in 1..Len(keys) |-> GroupResult(groupBy, keys[k], members(keys[k]), fields)]

\* projected[alias] = row[expr] for each parsed field
Project(row, fields) ==
  [a \in {fields[k].alias : k \in 1..Len(fields)} |->
     LET last == CHOOSE k \in 1..Len(fields) :
                   fields[k].alias = a /\ \A j \in k + 1..Len(fields) : fields[j].alias # a
     IN  Get(row, fields[last].expr)]

\* the comparator says a belongs before b and b does not belong before a
SortsBefore(a, b, dir) == IF dir = "DESC" THEN Less(b, a) ELSE Less(a, b)

\* rows.sort(comparator): the orders the sort can leave the rows in.  The
\* comparator never answers 0.  On keys that are all numbers or all strings it
\* orders every pair of different keys and leaves equal keys in either order;
\* on other keys it is not a consistent comparison and the order is
\* implementation-defined.
SortOutcomes(rows, orderBy, dir) ==
  LET n == Len(rows)
      key(i) == Get(rows[i], orderBy)
      ordered == \/ \A i \in 1..n : key(i).t = "num"
                 \/ \A i \in 1..n : key(i).t = "str"
      perms == {p \in [1..n -> 1..n] : \A i, j \in 1..n : i # j => p[i] # p[j]}
      fine(p) == \A i, j \in 1..n : i < j => ~SortsBefore(key(p[j]), key(p[i]), dir)
  IN  {[i \in 1..n |-> rows[p[i]]] : p \in {q \in perms : ordered => fine(q)}}

\* rows.slice(0, n)
Slice(rows, n) == SubSeq(rows, 1, IF n < Len(rows) THEN n ELSE Len(rows))

\* The SELECT branch up to the ORDER BY: the row stream of the FROM or JOIN
\* and the rows after grouping or projection.
SelectRows(db, ps, m) ==
  LET Having(grouped) ==
        IF m.havingClause # <<>>
        THEN FilterRows(db, grouped, applyParams(m.havingClause, ps))
        ELSE [err |-> FALSE, rows |-> grouped]
      Grouped(from, having) == [err |-> having.err, stream |-> from.rows, rows |-> having.rows]
      Shape(from, fields) ==
        IF from.err THEN [err |-> TRUE, stream |-> <<>>, rows |-> <<>>]
        ELSE IF m.groupBy # ""
        THEN Grouped(from, Having(GroupBy(from.rows, m.groupBy, fields)))
        ELSE [err |-> FALSE, stream |-> from.rows,
              rows |-> [k \in 1..Len(from.rows) |-> Project(from.rows[k], fields)]]
      From_ ==
        IF m.tableB # ""
        THEN [err |-> FALSE,
              rows |-> JoinRows(TableOrEmpty(db, m.tableA), TableOrEmpty(db, m.tableB), m)]
        ELSE IF m.tableA \notin DOMAIN db THEN [err |-> TRUE, rows |-> <<>>]
        ELSE FilterRows(db, db[m.tableA],
                        IF m.whereClause # <<>> THEN applyParams(m.whereClause, ps) ELSE <<>>)
  IN  Shape(From_, ParsedFields(m.fieldsRaw))

-----------------------------------------------------------------------------
(* SecureLocalDB: the table store *)

\* the n-th value crypto.randomUUID() hands out
Uuid(n) == Str(<<"uuid">> \o NumText(n))

\* new Date().toISOString()
Now == Str(<<"now">>)

\* a schema check of insert and update throws
SchemaViolated(schema, obj) ==
  \E key \in DOMAIN schema : key \notin DOMAIN obj \/ TypeOf(obj[key]) # schema[key]

\* if (!obj.id) obj.id = crypto.randomUUID(); if (!obj.createdAt) obj.createdAt = ...
Stamp(obj, n) ==
  LET a == IF Truthy(Get(obj, "id")) THEN obj ELSE Merge(obj, "id" :> Uuid(n + 1))
  IN  IF Truthy(Get(a, "createdAt")) THEN a ELSE Merge(a, "createdAt" :> Now)

\* insert(table, obj): the store and the number of UUIDs drawn afterwards
insert(db, schs, n, table, obj) ==
  IF table \in DOMAIN schs /\ SchemaViolated(schs[table], obj)
  THEN [err |-> TRUE, db |-> db, n |-> n]
  ELSE LET n2 == IF Truthy(Get(obj, "id")) THEN n ELSE n + 1
       IN  IF table \notin DOMAIN db THEN [err |-> TRUE, db |-> db, n |-> n2]
           ELSE [err |-> FALSE, db |-> [db EXCEPT ![table] = Append(@, Stamp(obj, n))], n |-> n2]

RECURSIVE InsertAllOrNone(_, _, _, _, _)
\* a bulk insert that puts the table back as it was when an item is rejected
InsertAllOrNone(db, schs, n, table, list) ==
  IF list = <<>> THEN [err |-> FALSE, db |-> db, n |-> n]
  ELSE LET Rest(one, rest) ==
             IF one.err \/ rest.err THEN [err |-> TRUE, db |-> db, n |-> n] ELSE rest
           Next_(one) ==
             Rest(one, IF one.err THEN one
                       ELSE InsertAllOrNone(one.db, schs, one.n, table, Tail(list)))
       IN  Next_(insert(db, schs, n, table, list[1]))

RECURSIVE InsertAll(_, _, _, _, _)
\* for (const item of list) this.insert(table, item)
InsertAll(db, schs, n, table, list) ==
  IF list = <<>> THEN [err |-> FALSE, db |-> db, n |-> n]
  ELSE LET Rest(one) == IF one.err THEN one ELSE InsertAll(one.db, schs, one.n, table, Tail(list))
       IN  Rest(insert(db, schs, n, table, list[1]))

RECURSIVE UpdateRows(_, _, _, _, _)
\* the map of update(table, whereFn, updates) over rows: rows already
\* assigned stay assigned when a later row throws
UpdateRows(db, schs, table, rows, w) ==
  IF rows = <<>> THEN [err |-> FALSE, rows |-> <<>>, count |-> 0]
  ELSE LET updated == Merge(rows[1], w.updates)
           Then(r, rest) ==
             [err |-> rest.err,
              rows |-> <<IF r = "T" THEN updated ELSE rows[1]>> \o rest.rows,
              count |-> rest.count + (IF r = "T" THEN 1 ELSE 0)]
           One(r) ==
             IF r = "E" \/ (r = "T" /\ table \in DOMAIN schs /\ SchemaViolated(schs[table], updated))
             THEN [err |-> TRUE, rows |-> rows, count |-> 0]
             ELSE Then(r, UpdateRows(db, schs, table, Tail(rows), w))
       IN  One(_parseWhere(db, w.str, rows[1]))

\* update that pushes the updated copy of a row instead of assigning to the row
UpdatePushingCopies(db, schs, table, str, updates) ==
  IF table \notin DOMAIN db THEN [err |-> TRUE, db |-> db, count |-> 0]
  ELSE LET Done(u) ==
             [err |-> u.err,
              db |-> [db EXCEPT ![table] = IF u.err \/ u.count = 0 THEN u.rows ELSE @ \o u.rows],
              count |-> u.count]
       IN  Done(UpdateRows(db, schs, table, db[table], [str |-> str, updates |-> updates]))

\* update(table, whereFn, updates)
update(db, schs, table, str, updates) ==
  IF table \notin DOMAIN db THEN [err |-> TRUE, db |-> db, count |-> 0]
  ELSE LET Done(u) == [err |-> u.err, db |-> [db EXCEPT ![table] = u.rows], count |-> u.count]
       IN  Done(UpdateRows(db, schs, table, db[table], [str |-> str, updates |-> updates]))

RECURSIVE RemoveRows(_, _, _)
\* this.data[table].filter(row => !whereFn(row)); an empty str stands for () => true
RemoveRows(db, rows, str) ==
  IF rows = <<>> THEN [err |-> FALSE, rows |-> <<>>]
  ELSE LET Keep(r, rest) ==
             IF r = "E" \/ rest.err THEN [err |-> TRUE, rows |-> <<>>]
             ELSE [err |-> FALSE, rows |-> IF r = "F" THEN <<rows[1]>> \o rest.rows ELSE rest.rows]
       IN  Keep(IF str = <<>> THEN "T" ELSE _parseWhere(db, str, rows[1]),
                RemoveRows(db, Tail(rows), str))

\* delete(table, whereFn)
delete(db, table, str) ==
  IF table \notin DOMAIN db THEN [err |-> TRUE, db |-> db, count |-> 0]
  ELSE LET Done(kept) ==
             IF kept.err THEN [err |-> TRUE, db |-> db, count |-> 0]
             ELSE [err |-> FALSE, db |-> [db EXCEPT ![table] = kept.rows],
                   count |-> Len(db[table]) - Len(kept.rows)]
       IN  Done(RemoveRows(db, db[table], str))

-----------------------------------------------------------------------------
(* SecureLocalDB.query: the mutating statements *)

\* sql.match(/INSERT INTO (\w+)$/i)
MatchInsert(s) ==
  IF Len(s) >= 3 /\ s[Len(s) - 2] = W("INSERT") /\ s[Len(s) - 1] = W("INTO") /\ IsWord(s[Len(s)])
  THEN [ok |-> TRUE, table |-> s[Len(s)][1]]
  ELSE [ok |-> FALSE, table |-> ""]

\* sql.match(/UPDATE (\w+) SET (.+) WHERE (.+)/i): the greedy (.+) of SET
\* runs to the last WHERE that text follows
MatchUpdate(s) ==
  LET wheres(i) == {k \in i + 4..Len(s) - 1 : s[k] = W("WHERE")}
      starts == {i \in 1..Len(s) :
                   /\ s[i] = W("UPDATE") /\ IsWord(At(s, i + 1)) /\ At(s, i + 2) = W("SET")
                   /\ wheres(i) # {}}
  IN  IF starts = {} THEN [ok |-> FALSE, table |-> "", setStr |-> <<>>, whereStr |-> <<>>]
      ELSE LET i == CHOOSE x \in starts : \A y \in starts : x <= y
               k == CHOOSE x \in wheres(i) : \A y \in wheres(i) : y <= x
           IN  [ok |-> TRUE, table |-> s[i + 1][1],
                setStr |-> SubSeq(s, i + 3, k - 1), whereStr |-> From(s, k + 1)]

\* sql.match(/DELETE FROM (\w+)(?: WHERE (.+))?/i)
MatchDelete(s) ==
  LET starts == {i \in 1..Len(s) :
                   s[i] = W("DELETE") /\ At(s, i + 1) = W("FROM") /\ WordPrefix(At(s, i + 2))}
  IN  IF starts = {} THEN [ok |-> FALSE, table |-> "", whereStr |-> <<>>]
      ELSE LET i == CHOOSE x \in starts : \A y \in starts : x <= y
           IN  [ok |-> TRUE, table |-> s[i + 2][1],
                whereStr |-> IF IsWord(s[i + 2]) /\ At(s, i + 3) = W("WHERE") /\ Len(s) >= i + 4
                             THEN From(s, i + 4) ELSE <<>>]

\* one  k = v  of _parseAssignments: [k, v] = p.split('=')
Assignment(part) ==
  LET eqs == {k \in 1..Len(part) : part[k] = W("=")}
      first == IF eqs = {} THEN Len(part) + 1 ELSE CHOOSE x \in eqs : \A y \in eqs : x <= y
      later == {k \in eqs : k > first}
      second == IF later = {} THEN Len(part) + 1 ELSE CHOOSE x \in later : \A y \in later : x <= y
  IN  [bad |-> eqs = {},
       key |-> FlatText(SubSeq(part, 1, first - 1)),
       val |-> _parseValue(JoinTokens(SubSeq(part, first + 1, second - 1)))]

\* _parseAssignments(str): the object of the assignments; v.trim() throws on
\* a part without =
_parseAssignments(str) ==
  LET parts == SplitCommas(str)
      as == [k \in 1..Len(parts) |-> Assignment(parts[k])]
  IN  [bad |-> \E k \in 1..Len(as) : as[k].bad,
       updates |-> [key \in {as[k].key : k \in 1..Len(as)} |->
                      LET last == CHOOSE k \in 1..Len(as) :
                                    as[k].key = key /\ \A j \in k + 1..Len(as) : as[j].key # key
                      IN  as[last].val]]

Rows(rows) == [kind |-> "rows", rows |-> rows, count |-> 0]

Count(n) == [kind |-> "count", rows |-> <<>>, count |-> n]

Thrown == [kind |-> "error", rows |-> <<>>, count |-> 0]

\* query(sql, params) for a statement the SELECT pattern does not match:
\* INSERT, UPDATE, DELETE tried in this order
Mutate(db, schs, n, s, ps) ==
  LET Inserted(r) ==
        [db |-> r.db, n |-> r.n, ret |-> IF r.err THEN Thrown ELSE Count(Len(ps.items))]
      Counted(r) == [db |-> r.db, n |-> n, ret |-> IF r.err THEN Thrown ELSE Count(r.count)]
      Update(upd, set) ==
        IF set.bad THEN [db |-> db, n |-> n, ret |-> Thrown]
        ELSE Counted(update(db, schs, upd.table, applyParams(upd.whereStr, ps.vals), set.updates))
      Delete(del) ==
        Counted(delete(db, del.table,
                       IF del.whereStr # <<>> THEN applyParams(del.whereStr, ps.vals) ELSE <<>>))
      Branch(ins, upd, del) ==
        IF ins.ok
        THEN IF ~ps.hasItems THEN [db |-> db, n |-> n, ret |-> Thrown]
             ELSE Inserted(InsertAll(db, schs, n, ins.table, ps.items))
        ELSE IF upd.ok THEN Update(upd, _parseAssignments(applyParams(upd.setStr, ps.vals)))
        ELSE IF del.ok THEN Delete(del)
        ELSE [db |-> db, n |-> n, ret |-> Thrown]
  IN  Branch(MatchInsert(s), MatchUpdate(s), MatchDelete(s))

-----------------------------------------------------------------------------
(* SecureLocalDB as a state machine: tables are defined and filled, then a  *)
(* statement is run through query.                                          *)

NoTables == [x \in {} |-> <<>>]

NoCall == [op |-> "none"]

NoRet == [kind |-> "none", rows |-> <<>>, count |-> 0]

NoParams == [vals |-> <<>>, items |-> <<>>, hasItems |-> FALSE]

\* const db = new SecureLocalDB() on an empty store
Init ==
  /\ data = NoTables
  /\ schemas = NoTables
  /\ uuids = 0
  /\ sql = <<>>
  /\ params = NoParams
  /\ ret = NoRet
  /\ old = NoTables
  /\ stream = <<>>
  /\ arg = NoCall
  /\ out = "none"
  /\ heap = <<>>
  /\ held = <<>>

\* query(sql, params): SELECT is tried first, then the mutating statements
RunQuery(s, ps) ==
  LET Select(m, sel) ==
        /\ stream' = sel.stream
        /\ IF sel.err THEN ret' = Thrown
           ELSE \E sorted \in (IF m.orderBy # ""
                               THEN SortOutcomes(sel.rows, m.orderBy,
                                                 IF m.orderDir = "" THEN "ASC" ELSE m.orderDir)
                               ELSE {sel.rows}) :
                  ret' = Rows(IF m.limit >= 0 THEN Slice(sorted, m.limit) ELSE sorted)
        /\ UNCHANGED <<data, uuids>>
      Other(r) ==
        /\ data' = r.db
        /\ uuids' = r.n
        /\ ret' = r.ret
        /\ stream' = <<>>
      Branch(m) ==
        IF m.ok THEN Select(m, SelectRows(data, ps.vals, m))
        ELSE Other(Mutate(data, schemas, uuids, s, ps))
  IN  Branch(MatchSelect(s))

TotalRows == LET RECURSIVE Sum(_)
                 Sum(T) == IF T = {} THEN 0
                           ELSE LET x == CHOOSE y \in T : TRUE
                                IN  Len(data[x]) + Sum(T \ {x})
             IN  Sum(DOMAIN data)

\* defineTable(table, schema)
DefineTable(table, schema) ==
  /\ ret.kind = "none"
  /\ data' = IF table \in DOMAIN data THEN data ELSE (table :> <<>>) @@ data
  /\ schemas' = (table :> schema) @@ schemas
  /\ UNCHANGED <<uuids, sql, params, ret, old, stream, arg, out, heap, held>>

\* the objects handed to insert so far that it did not reject, by table
Supplied == IF arg.op = "insert" THEN arg.supplied ELSE NoTables

\* insert(table, obj); arg keeps the objects as the caller supplied them
Insert(table, obj) ==
  /\ ret.kind = "none"
  /\ table \in DOMAIN data
  /\ TotalRows < MaxRows
  /\ LET Stored(r) ==
           /\ data' = r.db
           /\ uuids' = r.n
           /\ arg' = IF r.err THEN arg
                     ELSE [op |-> "insert",
                           supplied |-> (table :> Append(TableOrEmpty(Supplied, table), obj))
                                          @@ Supplied]
     IN  Stored(insert(data, schemas, uuids, table, obj))
  /\ UNCHANGED <<schemas, sql, params, ret, old, stream, out, heap, held>>

\* the first statement run on the store
Query(s, ps) ==
  /\ ret.kind = "none"
  /\ sql' = s
  /\ params' = ps
  /\ old' = data
  /\ RunQuery(s, ps)
  /\ UNCHANGED <<schemas, arg, out, heap, held>>

\* the same UPDATE statement run a second time; arg keeps the first outcome
QueryAgain ==
  /\ ret.kind # "none"
  /\ arg.op \notin {"update", "again"}
  /\ ~MatchSelect(sql).ok /\ ~MatchInsert(sql).ok /\ MatchUpdate(sql).ok
  /\ arg' = [op |-> "again", ret |-> ret, data |-> data]
  /\ RunQuery(sql, params)
  /\ UNCHANGED <<schemas, sql, params, old, out, heap, held>>

-----------------------------------------------------------------------------
(* JSQL.update: the same store, matched by id or by a where object *)

\* no where object: whereObj = null
NoWhere == [has |-> FALSE, obj |-> [x \in {} |-> Null]]

\* the where object obj
Where(obj) == [has |-> TRUE, obj |-> obj]

\* Object.entries(whereObj).every(([k, v]) => row[k] === v)
WhereObjMatches(whereObj, row) ==
  \A k \in DOMAIN whereObj : StrictEq(Get(row, k), whereObj[k])

\* list.find(item => item.id === row.id) || (whereObj && whereFn(row) ? updates : null)
\* is not null, for updates that is one object
JSQLMatch(row, updates, where) ==
  \/ StrictEq(Get(updates, "id"), Get(row, "id"))
  \/ where.has /\ WhereObjMatches(where.obj, row)

RECURSIVE JSQLUpdateRows(_, _, _, _)
\* the map of JSQL.update over rows
JSQLUpdateRows(schema, rows, updates, where) ==
  IF rows = <<>> THEN [err |-> FALSE, rows |-> <<>>, count |-> 0]
  ELSE LET hit == JSQLMatch(rows[1], updates, where)
           updated == Merge(rows[1], updates)
           Then(rest) ==
             [err |-> rest.err,
              rows |-> <<IF hit THEN updated ELSE rows[1]>> \o rest.rows,
              count |-> rest.count + (IF hit THEN 1 ELSE 0)]
       IN  IF hit /\ SchemaViolated(schema, updated)
           THEN [err |-> TRUE, rows |-> rows, count |-> 0]
           ELSE Then(JSQLUpdateRows(schema, Tail(rows), updates, where))

\* JSQL.update(table, updates, whereObj)
JSQLUpdate(db, schs, table, updates, where) ==
  IF table \notin DOMAIN db \/ table \notin DOMAIN schs
  THEN [err |-> TRUE, db |-> db, count |-> 0]
  ELSE LET Done(u) == [err |-> u.err, db |-> [db EXCEPT ![table] = u.rows], count |-> u.count]
       IN  Done(JSQLUpdateRows(schs[table], db[table], updates, where))

\* the state after update(table, updates, whereObj) and what it returns
RunUpdate(table, updates, where) ==
  LET Done(r) ==
        /\ data' = r.db
        /\ ret' = IF r.err THEN Thrown ELSE Count(r.count)
  IN  Done(JSQLUpdate(data, schemas, table, updates, where))

\* the first update(table, updates, whereObj) on the store
Update(table, updates, where) ==
  /\ ret.kind = "none"
  /\ old' = data
  /\ arg' = [op |-> "update", table |-> table, updates |-> updates, where |-> where]
  /\ RunUpdate(table, updates, where)
  /\ UNCHANGED <<schemas, uuids, sql, params, stream, out, heap, held>>

\* the same update call made a second time; arg keeps the first outcome
UpdateAgain ==
  /\ arg.op = "update"
  /\ arg' = [op |-> "again", ret |-> ret, data |-> data,
             updates |-> arg.updates, where |-> arg.where]
  /\ RunUpdate(arg.table, arg.updates, arg.where)
  /\ UNCHANGED <<schemas, uuids, sql, params, old, stream, out, heap, held>>

-----------------------------------------------------------------------------
(* JSQL.insert: one object or an array of objects *)

\* inferredSchema[key] = typeof value, over the entries of list[0]
InferredSchema(obj) == [key \in DOMAIN obj |-> TypeOf(obj[key])]

\* JSQL.insert(table, obj), for obj given as the list of its items: a table
\* that is not there yet is defined with the schema of the first item
JSQLInsert(db, schs, n, table, list) ==
  LET Done(r, schs2) == [err |-> r.err, db |-> r.db, n |-> r.n, schs |-> schs2]
      Defined(db2, schs2) == Done(InsertAll(db2, schs2, n, table, list), schs2)
  IN  IF table \in DOMAIN db
      THEN Defined(db, schs)
      ELSE IF list = <<>> THEN [err |-> TRUE, db |-> db, n |-> n, schs |-> schs]
      ELSE Defined((table :> <<>>) @@ db, (table :> InferredSchema(list[1])) @@ schs)

\* what a call that returns no value leaves
Nothing == [kind |-> "undefined", rows |-> <<>>, count |-> 0]

\* insert(table, list) on the store; arg keeps the call
InsertMany(table, list) ==
  /\ ret.kind = "none"
  /\ TotalRows + Len(list) <= MaxRows
  /\ old' = data
  /\ arg' = [op |-> "bulk", table |-> table, list |-> list]
  /\ LET Done(r) ==
           /\ data' = r.db
           /\ schemas' = r.schs
           /\ uuids' = r.n
           /\ ret' = IF r.err THEN Thrown ELSE Nothing
     IN  Done(JSQLInsert(data, schemas, uuids, table, list))
  /\ UNCHANGED <<sql, params, stream, out, heap, held>>

-----------------------------------------------------------------------------
(* The inputs the model draws: schemas, records and statements *)

\* the tokens of words that are one chunk each
Words(ws) == [k \in 1..Len(ws) |-> W(ws[k])]

\* the quoted literal 'c'
Q(c) == <<"'", c, "'">>

\* the qualified name a.k
QN(a, k) == <<a, ".", k>>

EmptySchema == [x \in {} |-> ""]

TSchemas == {EmptySchema, [v |-> "number"]}

TItems == {[cat |-> Str(<<"a">>), v |-> Num(1)],
           [cat |-> Str(<<"a">>), v |-> Num(3)],
           [cat |-> Str(<<"b">>), v |-> Num(5)],
           [cat |-> Str(<<"b">>), v |-> Str(<<"x">>)]}

UItems == {[k |-> Str(<<"a">>), w |-> Num(1)],
           [k |-> Str(<<"c">>), w |-> Num(2), z |-> Bool(TRUE)]}

FieldLists == {Words(<<"*">>), Words(<<"cat">>), Words(<<"v">>), Words(<<"cat", ",", "v">>)}

WhereClauses == {Words(<<"v", ">", "1">>),
                 Words(<<"cat", "=">>) \o <<Q("a")>>,
                 Words(<<"v", "=", "3", "AND", "cat", "=">>) \o <<Q("a")>>,
                 Words(<<"v", "=", "1", "OR", "v", "=", "5">>)}

SubqueryClause ==
  Words(<<"cat", "IN">>) \o <<<<"(", "SELECT">>>> \o Words(<<"k", "FROM">>) \o <<<<"u", ")">>>>

SelectFrom(fields) == Words(<<"SELECT">>) \o fields \o Words(<<"FROM", "t">>)

\* SELECT <fields> FROM t [WHERE <cond>]
SelectStatements ==
  {SelectFrom(f) : f \in FieldLists}
    \cup {SelectFrom(f) \o Words(<<"WHERE">>) \o w : f \in FieldLists, w \in WhereClauses}

Directions == {<<>>, Words(<<"ASC">>), Words(<<"DESC">>)}

\* SELECT <fields> FROM t [WHERE <cond>] ORDER BY v [ASC|DESC] LIMIT <n>
OrderStatements ==
  {SelectFrom(f) \o Words(<<"ORDER", "BY", "v">>) \o d \o Words(<<"LIMIT", n>>) :
     f \in FieldLists \ {Words(<<"cat", ",", "v">>)}, d \in Directions, n \in {"1", "2"}}
    \cup {SelectFrom(Words(<<"v">>)) \o Words(<<"WHERE", "v", ">", "1", "ORDER", "BY", "v", "DESC", "LIMIT", "1">>)}

AggFields == {Words(<<"cat", ",">>) \o <<<<"SUM", "(", "v", ")">>>> \o Words(<<"AS", "sum">>),
              Words(<<"cat", ",">>) \o <<<<"COUNT", "(", "*", ")">>>> \o Words(<<"AS", "n">>),
              Words(<<"cat", ",">>) \o <<<<"AVG", "(", "v", ")">>>> \o Words(<<"AS", "avg">>),
              <<<<"COUNT", "(", "v", ")">>>> \o Words(<<"AS", "n", ",">>)
                \o <<<<"SUM", "(", "v", ")">>>> \o Words(<<"AS", "sum">>)}

HavingClauses == {Words(<<"sum", ">", "4">>), Words(<<"n", "=", "1">>)}

\* SELECT <aggregates> FROM t [WHERE <cond>] GROUP BY cat [HAVING <cond>]
GroupStatements ==
  {SelectFrom(f) \o Words(<<"GROUP", "BY", "cat">>) : f \in AggFields}
    \cup {SelectFrom(f) \o Words(<<"GROUP", "BY", "cat", "HAVING">>) \o h :
            f \in AggFields, h \in HavingClauses}
    \cup {SelectFrom(f) \o Words(<<"WHERE", "v", ">", "1", "GROUP", "BY", "cat">>) : f \in AggFields}

JoinKinds == {<<>>, Words(<<"INNER">>), Words(<<"LEFT">>), Words(<<"RIGHT">>), Words(<<"FULL">>)}

JoinFields == {<<QN("t", "cat"), W(","), QN("t", "v"), W(","), QN("u", "k"), W(","), QN("u", "w")>>,
               Words(<<"*">>)}

\* SELECT <fields> FROM t [kind] JOIN <u or a missing table> ON t.cat = u.k
JoinStatements ==
  {SelectFrom(f) \o k \o Words(<<"JOIN", "u", "ON">>) \o <<QN("t", "cat"), W("="), QN("u", "k")>> :
     f \in JoinFields, k \in JoinKinds}
    \cup {SelectFrom(Words(<<"*">>)) \o Words(<<"LEFT", "JOIN", "none", "ON">>)
            \o <<QN("t", "cat"), W("="), QN("none", "k")>>}

\* SELECT t.cat , t.v , u.k , u.w FROM t [kind] JOIN u ON t.cat = u.k WHERE <cond>
JoinWhereStatements ==
  {SelectFrom(<<QN("t", "cat"), W(","), QN("t", "v"), W(","), QN("u", "k"), W(","), QN("u", "w")>>)
     \o k \o Words(<<"JOIN", "u", "ON">>) \o <<QN("t", "cat"), W("="), QN("u", "k")>>
     \o Words(<<"WHERE">>) \o w :
     k \in {<<>>, Words(<<"LEFT">>)},
     w \in {Words(<<"v", "=", "1">>), <<QN("t", "v"), W(">"), W("1")>>}}

\* DELETE FROM t [WHERE <cond>]
DeleteStatements ==
  {Words(<<"DELETE", "FROM", "t">>)}
    \cup {Words(<<"DELETE", "FROM", "t", "WHERE">>) \o w : w \in WhereClauses \cup {SubqueryClause}}

Assignments == {Words(<<"v", "=", "1">>),
                Words(<<"v", "=", "3", ",", "cat", "=">>) \o <<Q("b")>>,
                Words(<<"v", "=">>) \o <<Q("x")>>}

\* UPDATE t SET <assignments> WHERE <cond>
UpdateStatements ==
  {Words(<<"UPDATE", "t", "SET">>) \o a \o Words(<<"WHERE">>) \o w :
     a \in Assignments, w \in WhereClauses}

Statements ==
  SelectStatements \cup OrderStatements \cup GroupStatements \cup JoinStatements
    \cup JoinWhereStatements
    \cup DeleteStatements \cup UpdateStatements

UpdateObjects == {[v |-> Num(1)],
                  [v |-> Num(3), cat |-> Str(<<"b">>)],
                  [id |-> Uuid(1), v |-> Str(<<"x">>)]}

WhereObjects == {NoWhere, Where(EmptySchema), Where([v |-> Num(3)]), Where([cat |-> Str(<<"a">>)])}

\* UPDATE t SET <field> = ? WHERE <field> = ?
ParamStatements == {Words(<<"UPDATE", "t", "SET", "v", "=", "?", "WHERE", "cat", "=", "?">>),
                    Words(<<"UPDATE", "t", "SET", "cat", "=", "?", "WHERE", "v", "=", "?">>)}

\* the params argument of query for a statement with two placeholders
ParamLists == {<<Num(9), Str(<<"a">>)>>, <<Str(<<"b">>), Num(3)>>, <<Num(3), Num(3)>>}

\* params given as a list of values
Params(vals) == [vals |-> vals, items |-> <<>>, hasItems |-> FALSE]

\* the arrays of records of a bulk insert
ItemLists == UNION {[1..n -> TItems] : n \in 1..MaxRows - 1}

\* params whose first element is the array of records
Items(list) == [vals |-> <<>>, items |-> list, hasItems |-> TRUE]

InsertStatement == Words(<<"INSERT", "INTO", "t">>)

Next ==
  \/ \E schema \in TSchemas : DefineTable("t", schema)
  \/ DOMAIN data = {} /\ DefineTable("u", EmptySchema)
  \/ \E obj \in TItems : Insert("t", obj)
  \/ \E obj \in UItems : TableOrEmpty(data, "t") = <<>> /\ Insert("u", obj)
  \/ \E s \in Statements : Query(s, NoParams)
  \/ \E s \in ParamStatements, vals \in ParamLists : Query(s, Params(vals))
  \/ \E list \in ItemLists :
       TotalRows + Len(list) <= MaxRows /\ Query(InsertStatement, Items(list))
  \/ \E list \in ItemLists : InsertMany("t", list)
  \/ QueryAgain
  \/ \E updates \in UpdateObjects, where \in WhereObjects : Update("t", updates, where)
  \/ UpdateAgain

Spec == Init /\ [][Next]_vars

-----------------------------------------------------------------------------
(* Predicates as pure functions: the inputs are drawn from bounded sets and  *)
(* the action applies the function to them.                                 *)

\* a comparison  f op v  with a numeric literal
Atoms == [f : {"a", "b", "c"}, op : {"="}, v : {1, 2, 3}] \cup [f : {"a"}, op : {"!=", ">"}, v : {1}]

UsedAtoms == {x \in Atoms : (x.f = "a" => x.v = 1) /\ (x.f = "b" => x.v = 2) /\ (x.f = "c" => x.v = 3)}

NumeralOf(n) == <<CHOOSE c \in Digits : DigitVal(c) = n>>

AtomText(x) == <<W(x.f), W(x.op), NumeralOf(x.v)>>

RECURSIVE ClauseText(_, _)
\* the clause  atom1 conn1 atom2 conn2 ...
ClauseText(atoms, conns) ==
  IF Len(atoms) = 1 THEN AtomText(atoms[1])
  ELSE AtomText(atoms[1]) \o <<W(conns[1])>> \o ClauseText(Tail(atoms), Tail(conns))

WhereRows == [{"a", "b", "c"} -> {Num(1), Num(2), Num(3)}]

SmallRows == {r \in WhereRows : r["a"].n \in {1, 2} /\ r["b"].n \in {2, 3} /\ r["c"].n \in {3, 1}}

ApplyParseWhere ==
  /\ arg.op = "none"
  /\ \E k \in 1..MaxComps :
      \E atoms \in [1..k -> UsedAtoms], conns \in [1..k - 1 -> {"AND", "OR"}], row \in SmallRows :
        /\ arg' = [op |-> "parseWhere", atoms |-> atoms, conns |-> conns, row |-> row]
        /\ out' = _parseWhere(data, ClauseText(atoms, conns), row)
        /\ UNCHANGED <<data, schemas, uuids, sql, params, ret, old, stream, heap, held>>

NextPure == ApplyParseWhere

SpecPure == Init /\ [][NextPure]_vars

\* what a comparison says of a row, read off the row directly
AtomTrue(row, x) ==
  CASE x.op = "=" -> row[x.f].n = x.v
    [] x.op = "!=" -> row[x.f].n # x.v
    [] x.op = ">" -> row[x.f].n > x.v

\* the AND-separated segment an atom lies in
SegmentOf(conns, i) == Cardinality({j \in 1..i - 1 : conns[j] = "AND"})

AndOfOrs(atoms, conns, row) ==
  \A s \in 0..SegmentOf(conns, Len(atoms)) :
    \E i \in 1..Len(atoms) : SegmentOf(conns, i) = s /\ AtomTrue(row, atoms[i])

A1 == [f |-> "a", op |-> "=", v |-> 1]

B2 == [f |-> "b", op |-> "=", v |-> 2]

C3 == [f |-> "c", op |-> "=", v |-> 3]

\* C1: the parsed predicate is true exactly when every AND-separated segment
\* holds a true OR-separated comparison; a=1 AND b=2 OR c=3 is
\* (a=1) AND (b=2 OR c=3), never (a=1 AND b=2) OR c=3.
C1_AndOfOrGroups ==
  arg.op = "parseWhere" =>
    /\ (out = "T") <=> AndOfOrs(arg.atoms, arg.conns, arg.row)
    /\ out \in {"T", "F"}
    /\ (arg.atoms = <<A1, B2, C3>> /\ arg.conns = <<"AND", "OR">>) =>
         ((out = "T") <=> (arg.row["a"].n = 1 /\ (arg.row["b"].n = 2 \/ arg.row["c"].n = 3)))

\* a=1 AND b=2 OR c=3 on a row with a # 1 and c = 3: false, where the
\* conventional precedence would give true
C1_Witness ==
  /\ arg.op = "parseWhere"
  /\ arg.atoms = <<A1, B2, C3>>
  /\ arg.conns = <<"AND", "OR">>
  /\ arg.row["a"].n = 2 /\ arg.row["c"].n = 3
  /\ out = "F"

-----------------------------------------------------------------------------
(* SELECT ... WHERE *)

\* the position of the first token kw of the statement, 0 when there is none
Find(toks, kw) ==
  IF Positions(toks, kw) = {} THEN 0
  ELSE CHOOSE i \in Positions(toks, kw) : \A j \in Positions(toks, kw) : i <= j

\* the text that follows the keyword WHERE of the statement
WhereText(toks) == From(toks, Find(toks, W("WHERE")) + 1)

\* the rows of the table for which the predicate parsed from the text is true
Satisfying(db, table, text) ==
  SelectSeq(db[table], LAMBDA r : _parseWhere(db, text, r) = "T")

\* the statement  SELECT <fields> FROM t WHERE <cond>  has run on a defined table
RanSelectWhere ==
  /\ ret.kind # "none"
  /\ sql \in SelectStatements
  /\ Find(sql, W("WHERE")) > 0
  /\ "t" \in DOMAIN old

\* C2: SELECT <fields> FROM T WHERE W returns one row for each row of T that
\* satisfies the predicate parsed from W, in table order, and no row for the
\* others: as many result rows as satisfying rows, and the k-th result row
\* carries the values of the k-th satisfying row.
C2_SelectWhereReturnsSatisfying ==
  RanSelectWhere =>
    LET match == Satisfying(old, "t", WhereText(sql))
    IN  /\ ret.kind = "rows"
        /\ Len(ret.rows) = Len(match)
        /\ \A k \in 1..Len(ret.rows) :
             \A f \in DOMAIN ret.rows[k] \cap DOMAIN match[k] : ret.rows[k][f] = match[k][f]

-----------------------------------------------------------------------------
(* DELETE *)

\* the rows of the table that the WHERE text of the statement selects: all
\* rows when the statement has no WHERE
Selected(db, table, toks) ==
  IF Find(toks, W("WHERE")) = 0 THEN db[table] ELSE Satisfying(db, table, WhereText(toks))

\* the rows of the table that the WHERE text of the statement does not select
NotSelected(db, table, toks) ==
  IF Find(toks, W("WHERE")) = 0 THEN <<>>
  ELSE SelectSeq(db[table], LAMBDA r : _parseWhere(db, WhereText(toks), r) = "F")

\* a statement  DELETE FROM t [WHERE <cond>]  has run, all tables it names defined
RanDelete ==
  /\ ret.kind # "none"
  /\ sql \in DeleteStatements
  /\ {"t", "u"} \subseteq DOMAIN old

\* C3: DELETE FROM T [WHERE W] removes from T exactly the rows that satisfy W,
\* all rows without W, keeps the other rows in their order, and returns the
\* number of rows removed, which is the number of rows that satisfied W before
\* the call; W may be  f IN (SELECT ...).
C3_DeleteRemovesSatisfying ==
  RanDelete =>
    /\ data["t"] = NotSelected(old, "t", sql)
    /\ data["u"] = old["u"]
    /\ ret = Count(Len(Selected(old, "t", sql)))

-----------------------------------------------------------------------------
(* Insert and select all *)

\* records that bring their own id or createdAt
StampedItems == {[cat |-> Str(<<"a">>), v |-> Num(1), id |-> Num(7)],
                 [cat |-> Str(<<"a">>), v |-> Num(1), id |-> Num(0)],
                 [cat |-> Str(<<"b">>), v |-> Num(5), id |-> Str(<<"k">>), createdAt |-> Num(0)]}

NextStore ==
  \/ \E schema \in TSchemas : DefineTable("t", schema)
  \/ \E obj \in TItems \cup StampedItems : Insert("t", obj)

SpecStore == Init /\ [][NextStore]_vars

\* select(table): the rows of the table
select(db, table) == FilterRows(db, db[table], <<>>).rows

\* C4: after N schema-conforming records are inserted, selecting all rows
\* yields N rows in insertion order; every row has each supplied field with
\* its supplied value, a supplied id or createdAt of any value included, and
\* has id and createdAt besides only where the record did not supply them.
C4_InsertRoundTrip ==
  \A table \in DOMAIN Supplied :
    LET rows == select(data, table)
        objs == Supplied[table]
    IN  /\ Len(rows) = Len(objs)
        /\ \A k \in 1..Len(objs) :
             /\ DOMAIN rows[k] = DOMAIN objs[k] \cup {"id", "createdAt"}
             /\ \A f \in DOMAIN objs[k] : rows[k][f] = objs[k][f]

-----------------------------------------------------------------------------
(* UPDATE twice *)

\* an UPDATE statement or an update call has run twice
RanTwice == arg.op = "again"

\* the second run was of update(table, updates, whereObj)
CalledTwice == RanTwice /\ "updates" \in DOMAIN arg

\* the fields the UPDATE assigns
AssignedFields ==
  IF CalledTwice THEN DOMAIN arg.updates
  ELSE DOMAIN _parseAssignments(MatchUpdate(sql).setStr).updates

\* the fields the matcher of the UPDATE reads: the names compared in the WHERE
\* text; the keys of the where object and the id that update looks rows up by
ReadFields ==
  IF CalledTwice THEN DOMAIN arg.where.obj \cup {"id"}
  ELSE LET w == MatchUpdate(sql).whereStr
       IN  {Name(w[k]) : k \in {j \in 1..Len(w) - 1 : Len(w[j + 1]) = 1 /\ w[j + 1][1] \in CompareOps}}

\* C5 as stated: the second run of the same UPDATE leaves the table as the
\* first run left it and reports the same affected-row count as the first run.
C5_SecondRunSameStateSameCount ==
  RanTwice => data = arg.data /\ ret = arg.ret

\* C5, amended: the second run of the same UPDATE leaves the store as the
\* first run left it, ends the way the first run ended (a count or an error)
\* and reports a count that is at most the first count; the two counts are
\* equal when the UPDATE assigns none of the fields its matcher reads.
C5_SecondRunSameState ==
  RanTwice =>
    /\ data = arg.data
    /\ ret.kind = arg.ret.kind
    /\ ret.count <= arg.ret.count
    /\ AssignedFields \cap ReadFields = {} => ret = arg.ret

\* a second run that reports fewer rows than the first, which changed the table
C5_Witness ==
  /\ RanTwice
  /\ old # arg.data
  /\ data = arg.data
  /\ ret.kind = "count"
  /\ ret.count < arg.ret.count

-----------------------------------------------------------------------------
(* LEFT and FULL JOIN *)

\* a statement  SELECT ... FROM t LEFT|FULL JOIN <right> ON t.cat = <right>.k  has run
RanOuterJoin ==
  /\ ret.kind # "none"
  /\ sql \in JoinStatements
  /\ sql[Find(sql, W("JOIN")) - 1] \in {W("LEFT"), W("FULL")}

\* the name of the right table of the statement
RightName == Name(sql[Find(sql, W("JOIN")) + 1])

LeftTable == TableOrEmpty(old, "t")

RightTable == TableOrEmpty(old, RightName)

\* the left rows, by position, that no right row is key-equal to
UnmatchedLeft ==
  {i \in 1..Len(LeftTable) :
     \A j \in 1..Len(RightTable) : ~StrictEq(Get(LeftTable[i], "cat"), Get(RightTable[j], "k"))}

\* the fields a right row has: those of the first right row
RightFields == IF RightTable = <<>> THEN {} ELSE DOMAIN RightTable[1]

\* row r is left row i under its alias with the right side's fields null
IsPadded(r, i) ==
  /\ DOMAIN r = {"t." \o f : f \in DOMAIN LeftTable[i]}
                  \cup {RightName \o "." \o f : f \in RightFields}
  /\ \A f \in DOMAIN LeftTable[i] : r["t." \o f] = LeftTable[i][f]
  /\ \A f \in RightFields : r[RightName \o "." \o f] = Null

-----------------------------------------------------------------------------
(* GROUP BY and HAVING *)

\* the tokens strictly between the first kw1 and the first kw2 of the statement
Between(toks, kw1, kw2) == SubSeq(toks, Find(toks, kw1) + 1, Find(toks, kw2) - 1)

\* the rows a statement on t groups: those its WHERE text selects, all
\* rows without WHERE
GroupInput ==
  IF Find(sql, W("WHERE")) = 0 THEN old["t"]
  ELSE Satisfying(old, "t", Between(sql, W("WHERE"), W("GROUP")))

\* the positions in rows of the first row of each value of field g
FirstOfKey(rows, g) ==
  {i \in 1..Len(rows) : \A j \in 1..i - 1 : Get(rows[j], g) # Get(rows[i], g)}

\* the k-th smallest member of a set of numbers
Nth(S, k) == CHOOSE x \in S : Cardinality({y \in S : y < x}) = k - 1

\* the rows of the group of the value key
Members(rows, g, key) == SelectSeq(rows, LAMBDA r : Get(r, g) = key)

\* the aggregates the field list asks for:  FN(arg) AS alias
AggregatesAsked ==
  {[fn |-> sql[p][1], arg |-> sql[p][3], alias |-> Name(sql[p + 2])] :
     p \in {q \in 1..Find(sql, W("FROM")) - 3 :
              Len(sql[q]) = 4 /\ sql[q][1] \in AggFns /\ sql[q + 1] = W("AS")}}

RECURSIVE NumericSum(_, _)
\* the sum of the field over the rows, a value that is not a number counting 0
NumericSum(rows, f) ==
  IF rows = <<>> THEN Num(0)
  ELSE Plus(IF Get(rows[1], f).t = "num" THEN Get(rows[1], f) ELSE Num(0),
            NumericSum(Tail(rows), f))

\* what the aggregate is over the rows of a group
Expected(agg, rows) ==
  CASE agg.fn = "COUNT" -> Num(Len(rows))
    [] agg.fn = "SUM" -> NumericSum(rows, agg.arg)
    [] agg.fn = "AVG" -> Ratio(NumericSum(rows, agg.arg).n, NumericSum(rows, agg.arg).d * Len(rows))

\* the row of the group of the value key: the key and the aggregates asked for
GroupRow(rows, g, key) ==
  [f \in {g} \cup {a.alias : a \in AggregatesAsked} |->
     IF f = g THEN key
     ELSE Expected(CHOOSE a \in AggregatesAsked : a.alias = f, Members(rows, g, key))]

\* one GroupRow for each value of g among the rows, in order of first appearance
GroupRows(rows, g) ==
  [k \in 1..Cardinality(FirstOfKey(rows, g)) |->
     GroupRow(rows, g, Get(rows[Nth(FirstOfKey(rows, g), k)], g))]

\* a statement  SELECT <aggregates> FROM t [WHERE <cond>] GROUP BY cat  has run
RanGroupBy ==
  /\ ret.kind # "none"
  /\ sql \in GroupStatements
  /\ Find(sql, W("HAVING")) = 0
  /\ "t" \in DOMAIN old

\* C7: a SELECT with GROUP BY g returns exactly one row for each distinct
\* value of g among its input rows, in order of first appearance; the row has
\* g's value and, under each aggregate's alias, COUNT the number of rows of the
\* group, SUM the sum of the argument field with non-numeric values as 0, and
\* AVG that sum divided by the size of the group.
C7_GroupByOneRowPerKey ==
  RanGroupBy => ret = Rows(GroupRows(GroupInput, "cat"))

\* a statement  SELECT <aggregates> FROM t GROUP BY cat HAVING <cond>  has run
RanHaving ==
  /\ ret.kind # "none"
  /\ sql \in GroupStatements
  /\ Find(sql, W("HAVING")) > 0
  /\ "t" \in DOMAIN old

\* the text that follows the keyword HAVING of the statement
HavingText == From(sql, Find(sql, W("HAVING")) + 1)

\* C8: a GROUP BY query with a HAVING clause returns exactly the aggregated
\* group rows for which the HAVING predicate, read over the output aliases, is
\* true; a group whose row makes it false (sum = 4 under HAVING sum > 4) is
\* not returned.
C8_HavingFiltersGroups ==
  RanHaving =>
    ret = Rows(SelectSeq(GroupRows(GroupInput, "cat"),
                         LAMBDA r : _parseWhere(old, HavingText, r) = "T"))

-----------------------------------------------------------------------------
(* ORDER BY and LIMIT *)

\* a statement  SELECT <fields> FROM t [WHERE <cond>] ORDER BY v [dir] LIMIT <n>
\* has run on rows whose v are all numbers
RanOrderLimit ==
  /\ ret.kind # "none"
  /\ sql \in OrderStatements
  /\ "t" \in DOMAIN old
  /\ \A i \in 1..Len(old["t"]) : Get(old["t"][i], "v").t = "num"

\* the rows the statement orders: those its WHERE text selects, all rows
\* without WHERE
OrderInput ==
  IF Find(sql, W("WHERE")) = 0 THEN old["t"]
  ELSE Satisfying(old, "t", Between(sql, W("WHERE"), W("ORDER")))

Descending == Find(sql, W("DESC")) > 0

LimitAsked == Decimal(sql[Find(sql, W("LIMIT")) + 1])

\* the field list of the statement
FieldsAsked == Between(sql, W("SELECT"), W("FROM"))

\* what the result shows of a row: the row for *, else the listed fields
Shown(row) ==
  IF FieldsAsked = Words(<<"*">>) THEN row
  ELSE [f \in {Name(FieldsAsked[k]) : k \in {j \in 1..Len(FieldsAsked) : FieldsAsked[j] # W(",")}}
          |-> Get(row, f)]

\* p lists the rows in the order asked for: v never decreases for ASC, never
\* increases for DESC
InOrder(rows, p) ==
  \A i, j \in 1..Len(rows) :
    i < j => IF Descending
             THEN ~Less(Get(rows[p[i]], "v"), Get(rows[p[j]], "v"))
             ELSE ~Less(Get(rows[p[j]], "v"), Get(rows[p[i]], "v"))

\* C9: a SELECT with ORDER BY f [ASC|DESC] and LIMIT n over rows whose f are
\* numbers returns, for every field list, the first min(n, number of rows)
\* rows of the row stream sorted by f in the direction asked for, ascending
\* when none is given.
C9_OrderByThenLimit ==
  RanOrderLimit =>
    /\ ret.kind = "rows"
    /\ \E p \in [1..Len(OrderInput) -> 1..Len(OrderInput)] :
         /\ \A i, j \in 1..Len(OrderInput) : i # j => p[i] # p[j]
         /\ InOrder(OrderInput, p)
         /\ ret.rows = [k \in 1..(IF LimitAsked < Len(OrderInput) THEN LimitAsked ELSE Len(OrderInput))
                          |-> Shown(OrderInput[p[k]])]

-----------------------------------------------------------------------------
(* JSQL._evalCondition: LIKE and NOT LIKE *)

\* the letter, ignoring case (the flag i of the RegExp)
FoldCase(c) == IF c = "A" THEN "a" ELSE IF c = "B" THEN "b" ELSE c

RECURSIVE RegexTest(_, _)
\* new RegExp('^' + source + '$', 'i').test(str) for a source made of letters,
\* of . (any character) and of % already replaced by .* (any sequence)
RegexTest(pattern, str) ==
  IF pattern = <<>> THEN str = <<>>
  ELSE IF pattern[1] = "%"
  THEN \E k \in 0..Len(str) : RegexTest(Tail(pattern), SubSeq(str, k + 1, Len(str)))
  ELSE /\ str # <<>>
       /\ pattern[1] = "." \/ FoldCase(pattern[1]) = FoldCase(str[1])
       /\ RegexTest(Tail(pattern), Tail(str))

\* String(row[key]), which test applies to its argument
ToText(v) ==
  CASE v.t = "str" -> v.s
    [] v.t = "undef" -> <<"u", "n", "d", "e", "f", "i", "n", "e", "d">>
    [] v.t = "null" -> <<"n", "u", "l", "l">>
    [] OTHER -> ParamText(v)

\* the capture (.+?) of  ['"](.+?)['"]$  in a quoted token: what stands
\* between the first and the last character, which must be quotes, and is
\* not empty
QuotedPattern(tok) ==
  IF Len(tok) >= 3 /\ tok[1] \in Quotes /\ tok[Len(tok)] \in Quotes
  THEN [ok |-> TRUE, pattern |-> SubSeq(tok, 2, Len(tok) - 1)]
  ELSE [ok |-> FALSE, pattern |-> <<>>]

\* _evalCondition(row, cond) for a cond that starts  <name> LIKE  or
\* <name> NOT LIKE : the NOT LIKE branch, the LIKE branch, and false when
\* neither pattern matches, as no later branch matches such a cond either
EvalLike(row, cond) ==
  IF Len(cond) = 4 /\ IsWord(cond[1]) /\ cond[2] = W("NOT") /\ cond[3] = W("LIKE")
       /\ QuotedPattern(cond[4]).ok
  THEN ~RegexTest(QuotedPattern(cond[4]).pattern, ToText(Get(row, Name(cond[1]))))
  ELSE IF Len(cond) = 3 /\ IsWord(cond[1]) /\ cond[2] = W("LIKE") /\ QuotedPattern(cond[3]).ok
  THEN RegexTest(QuotedPattern(cond[3]).pattern, ToText(Get(row, Name(cond[1]))))
  ELSE FALSE

\* the characters of field values and of patterns
ValueChars == {"A", "a", "b"}

PatternChars == {"a", "b", ".", "%"}

\* the texts of at most MaxText characters
Texts(chars) == UNION {[1..n -> chars] : n \in 0..MaxText}

\* the cond  name [NOT] LIKE '<pattern>'
LikeText(negate, pattern) ==
  Words(IF negate THEN <<"name", "NOT", "LIKE">> ELSE <<"name", "LIKE">>)
    \o <<<<"'">> \o pattern \o <<"'">>>>

\* _evalCondition called on a row with a string field and a LIKE condition
ApplyLike ==
  /\ arg.op = "none"
  /\ \E str \in Texts(ValueChars), pattern \in Texts(PatternChars), negate \in BOOLEAN :
       /\ arg' = [op |-> "like", str |-> str, pattern |-> pattern, negate |-> negate]
       /\ out' = IF EvalLike([name |-> Str(str)], LikeText(negate, pattern)) THEN "T" ELSE "F"
  /\ UNCHANGED <<data, schemas, uuids, sql, params, ret, old, stream, heap, held>>

SpecLike == Init /\ [][ApplyLike]_vars

RECURSIVE Like(_, _)
\* str is pattern, ignoring case, with % standing for any sequence of
\* characters and every other character of the pattern for itself
Like(pattern, str) ==
  IF pattern = <<>> THEN str = <<>>
  ELSE IF pattern[1] = "%"
  THEN \E k \in 0..Len(str) : Like(Tail(pattern), SubSeq(str, k + 1, Len(str)))
  ELSE str # <<>> /\ FoldCase(pattern[1]) = FoldCase(str[1]) /\ Like(Tail(pattern), Tail(str))

\* C10: f LIKE 'p' is true exactly when the whole string value of f is p,
\* ignoring case, % standing for any sequence of characters and every other
\* character for itself; f NOT LIKE 'p' is true exactly when f LIKE 'p' is
\* false.
C10_LikeMatchesWholeString ==
  arg.op = "like" =>
    ((out = "T") <=> (IF arg.negate THEN ~Like(arg.pattern, arg.str)
                      ELSE Like(arg.pattern, arg.str)))

-----------------------------------------------------------------------------
(* Positional placeholders *)

\* the statement  UPDATE t SET a = ? WHERE b = ?  has run once, with two
\* parameters, on a table without a schema
RanParamUpdate ==
  /\ ret.kind # "none"
  /\ arg.op # "again"
  /\ sql \in ParamStatements
  /\ "t" \in DOMAIN old
  /\ schemas["t"] = EmptySchema

\* the field the statement assigns and the field it compares
SetField == Name(sql[4])

WhereField == Name(sql[8])

\* the rows of t, by position, whose compared field equals the second parameter
EqualsSecond ==
  {i \in 1..Len(old["t"]) : LooseEq(Get(old["t"][i], WhereField), params.vals[2])}

\* C11: the k-th ? of the statement, counted across the SET and WHERE
\* fragments together, stands for the k-th parameter:  UPDATE T SET a = ?
\* WHERE b = ?  with parameters [x, y] assigns x to a on exactly the rows
\* where b equals y, and reports their number.
C11_PlaceholdersBindInOrder ==
  RanParamUpdate =>
    /\ ret = Count(Cardinality(EqualsSecond))
    /\ data["t"] = [i \in 1..Len(old["t"]) |->
                      IF i \in EqualsSecond
                      THEN Merge(old["t"][i], SetField :> params.vals[1])
                      ELSE old["t"][i]]

-----------------------------------------------------------------------------
(* Rows as objects.  A table holds references to row objects; heap gives the *)
(* fields of the object at each reference, and held is the array of          *)
(* references a SELECT handed to its caller.  out is the class of the store. *)

Classes == {"SecureLocalDB", "JSQL"}

\* const db = new SecureLocalDB()  or  const db = new JSQL()
InitRefs ==
  /\ data = NoTables
  /\ schemas = NoTables
  /\ uuids = 0
  /\ sql = <<>>
  /\ params = NoParams
  /\ ret = NoRet
  /\ old = NoTables
  /\ stream = <<>>
  /\ arg = NoCall
  /\ out \in Classes
  /\ heap = <<>>
  /\ held = <<>>

\* the objects the references stand for
Objects(refs) == [i \in 1..Len(refs) |-> heap[refs[i]]]

\* the tables with each reference replaced by the fields of its object
Stored == [table \in DOMAIN data |-> Objects(data[table])]

\* insert(table, obj): the object handed in is stamped and pushed itself
InsertObject(table, obj) ==
  /\ ret.kind = "none"
  /\ table \in DOMAIN data
  /\ Len(heap) < MaxRows
  /\ ~SchemaViolated(schemas[table], obj)
  /\ heap' = Append(heap, Stamp(obj, uuids))
  /\ data' = [data EXCEPT ![table] = Append(@, Len(heap) + 1)]
  /\ uuids' = IF Truthy(Get(obj, "id")) THEN uuids ELSE uuids + 1
  /\ UNCHANGED <<schemas, sql, params, ret, old, stream, arg, out, held>>

\* SecureLocalDB.query for a SELECT: the arrays of rows it can return
SecureSelect(s) ==
  LET Sorted(m, sel) ==
        IF sel.err THEN {}
        ELSE {IF m.limit >= 0 THEN Slice(sorted, m.limit) ELSE sorted :
                sorted \in (IF m.orderBy # ""
                            THEN SortOutcomes(sel.rows, m.orderBy,
                                              IF m.orderDir = "" THEN "ASC" ELSE m.orderDir)
                            ELSE {sel.rows})}
      Branch(m) == IF m.ok THEN Sorted(m, SelectRows(Stored, <<>>, m)) ELSE {}
  IN  Branch(MatchSelect(s))

\* sql.match(insert), sql.match(update) or sql.match(del) of JSQL.query
\* succeeds: the three patterns tried before the SELECT pattern
MatchesMutation(s) ==
  \E i \in 1..Len(s) - 1 :
    LET tok == s[i][Len(s[i])]
    IN  \/ tok = "INSERT" /\ s[i + 1] = W("INTO") /\ WordPrefix(At(s, i + 2))
        \/ tok = "UPDATE" /\ IsWord(s[i + 1]) /\ At(s, i + 2) = W("SET")
                          /\ At(s, i + 3) # <<>> /\ At(s, i + 3)[1] = "?"
        \/ tok = "DELETE" /\ s[i + 1] = W("FROM") /\ WordPrefix(At(s, i + 2))

\* (?:\s+WHERE\s+(.+?))? of JSQL.query: every group behind the lazy capture
\* is optional, so the capture is one character.  The tokens that follow
\* WHERE in the statements run here start with a chunk of one character.
OneCharGroup(rest) ==
  IF At(rest, 1) = W("WHERE") /\ Len(rest) >= 2
  THEN [hit |-> TRUE, clause |-> rest[2][1],
        rest |-> IF Len(rest[2]) = 1 THEN From(rest, 3) ELSE <<>>]
  ELSE [hit |-> FALSE, clause |-> "", rest |-> rest]

\* sql.match(select) of JSQL.query
MatchStarSelect(s) ==
  LET starts == {i \in 1..Len(s) :
                   /\ s[i][Len(s[i])] = "SELECT" /\ At(s, i + 1) = W("*")
                   /\ At(s, i + 2) = W("FROM") /\ WordPrefix(At(s, i + 3))}
  IN  IF starts = {} THEN [ok |-> FALSE]
      ELSE LET i == CHOOSE x \in starts : \A y \in starts : x <= y
               r1 == IF IsWord(s[i + 3]) THEN From(s, i + 4) ELSE <<>>
               wh == OneCharGroup(r1)
               ob == OrderGroup(wh.rest)
               lm == LimitGroup(From(wh.rest, ob.len + 1))
           IN  [ok |-> TRUE, table |-> s[i + 3][1], whereClause |-> wh.clause,
                orderBy |-> ob.orderBy, orderDir |-> ob.orderDir, limit |-> lm.limit]

\* _parseWhereObject(str) for a str of one character: the text has no AND and
\* at most one =, so the object has one key
_parseWhereObject(str) ==
  IF str = "=" THEN "" :> Str(<<>>) ELSE str :> Undef

\* rows.filter(row => Object.entries(...).every(([key, val]) => row[key] == val))
FilterRefs(refs, whereObj) ==
  LET keep == {i \in 1..Len(refs) :
                 \A key \in DOMAIN whereObj : LooseEq(Get(heap[refs[i]], key), whereObj[key])}
      RECURSIVE Pick(_)
      Pick(i) == IF i > Len(refs) THEN <<>>
                 ELSE (IF i \in keep THEN <<refs[i]>> ELSE <<>>) \o Pick(i + 1)
  IN  Pick(1)

\* rows.sort(comparator) on an array of references: the orders SortOutcomes
\* allows for the objects
SortRefs(refs, orderBy, dir) ==
  {p \in [1..Len(refs) -> {refs[i] : i \in 1..Len(refs)}] :
     /\ \A r \in {refs[i] : i \in 1..Len(refs)} :
          Cardinality({i \in 1..Len(refs) : p[i] = r})
            = Cardinality({i \in 1..Len(refs) : refs[i] = r})
     /\ Objects(p) \in SortOutcomes(Objects(refs), orderBy, dir)}

\* JSQL.query for a SELECT: the arrays of references it can return.  The
\* array is a copy, [...this.data[table]]; its elements are the stored rows.
StarSelect(s) ==
  LET Limited(m, sorted) == IF m.limit >= 0 THEN Slice(sorted, m.limit) ELSE sorted
      Ordered(m, rows) ==
        {Limited(m, sorted) :
           sorted \in (IF m.orderBy # ""
                       THEN SortRefs(rows, m.orderBy, IF m.orderDir = "DESC" THEN "DESC" ELSE "ASC")
                       ELSE {rows})}
      Branch(m) ==
        IF ~m.ok THEN {}
        ELSE Ordered(m, IF m.whereClause # ""
                        THEN FilterRefs(TableOrEmpty(data, m.table), _parseWhereObject(m.whereClause))
                        ELSE TableOrEmpty(data, m.table))
  IN  Branch(MatchStarSelect(s))

\* const rows = db.query(sql) for a SELECT: the caller holds the array
SelectObjects(s) ==
  /\ ret.kind = "none"
  /\ ~(out = "JSQL" /\ MatchesMutation(s))
  /\ sql' = s
  /\ IF out = "JSQL"
     THEN \/ \E refs \in StarSelect(s) :
               held' = refs /\ ret' = Rows(Objects(refs)) /\ heap' = heap
          \/ StarSelect(s) = {} /\ ret' = Thrown /\ UNCHANGED <<heap, held>>
     ELSE \/ \E rows \in SecureSelect(s) :
               /\ heap' = heap \o rows
               /\ held' = [i \in 1..Len(rows) |-> Len(heap) + i]
               /\ ret' = Rows(rows)
          \/ SecureSelect(s) = {} /\ ret' = Thrown /\ UNCHANGED <<heap, held>>
  /\ UNCHANGED <<data, schemas, uuids, params, old, stream, arg, out>>

\* rows[i][key] = val, by the caller, on a row the SELECT returned
WriteField(i, key, val) ==
  /\ ret.kind = "rows"
  /\ arg.op = "none"
  /\ i \in 1..Len(held)
  /\ heap' = [heap EXCEPT ![held[i]] = Merge(@, key :> val)]
  /\ arg' = [op |-> "write"]
  /\ old' = Stored
  /\ UNCHANGED <<data, schemas, uuids, sql, params, ret, stream, out, held>>

\* Object.assign(row, updates) on each row of the table: the objects stay,
\* their fields take the values in rows
AssignRows(table, rows) ==
  [a \in 1..Len(heap) |->
     IF \E i \in 1..Len(data[table]) : data[table][i] = a
     THEN rows[CHOOSE i \in 1..Len(data[table]) : data[table][i] = a]
     ELSE heap[a]]

\* an update of the table after the SELECT: update(table, whereFn, updates)
\* of SecureLocalDB, with the whereFn that str parses to, and
\* update(table, updates, whereObj) of JSQL
UpdateStored(table, str, updates, where) ==
  /\ ret.kind = "rows"
  /\ arg.op = "none"
  /\ table \in DOMAIN data
  /\ LET Done(r) ==
           /\ heap' = AssignRows(table, r.db[table])
           /\ arg' = [op |-> "update", err |-> r.err, count |-> r.count]
     IN  Done(IF out = "JSQL"
              THEN JSQLUpdate(Stored, schemas, table, updates, where)
              ELSE update(Stored, schemas, table, str, updates))
  /\ old' = Stored
  /\ UNCHANGED <<data, schemas, uuids, sql, params, ret, stream, out, held>>

\* SELECT statements of both classes
ObjectStatements ==
  {SelectFrom(Words(<<"*">>)),
   SelectFrom(Words(<<"cat", ",", "v">>)),
   SelectFrom(Words(<<"*">>)) \o Words(<<"WHERE", "v", "=", "1">>),
   SelectFrom(Words(<<"v">>)) \o Words(<<"WHERE", "v", ">", "1">>),
   SelectFrom(Words(<<"*">>)) \o Words(<<"ORDER", "BY", "v", "DESC">>),
   SelectFrom(Words(<<"v">>)) \o Words(<<"ORDER", "BY", "v">>),
   SelectFrom(Words(<<"*">>)) \o Words(<<"LIMIT", "1">>)}
    \cup {SelectFrom(f) \o Words(<<"GROUP", "BY", "cat">>) : f \in AggFields}

NextRefs ==
  \/ DefineTable("t", EmptySchema)
  \/ \E obj \in TItems : InsertObject("t", obj)
  \/ \E s \in ObjectStatements : SelectObjects(s)
  \/ \E i \in 1..MaxRows, val \in {Num(7), Str(<<"z">>)} : WriteField(i, "v", val)
  \/ \E updates \in UpdateObjects, where \in WhereObjects \ {NoWhere} :
       UpdateStored("t", Words(<<"cat", "=">>) \o <<Q("a")>>, updates, where)

SpecRefs == InitRefs /\ [][NextRefs]_vars

-----------------------------------------------------------------------------
(* Result rows and stored rows *)

\* the caller has changed a field of a row that a SELECT returned
WroteReturnedRow == arg.op = "write"

\* the table was updated after a SELECT returned rows
UpdatedAfterSelect == arg.op = "update" /\ ~arg.err /\ arg.count > 0 /\ held # <<>>

\* C12: every row a SELECT returns is freshly allocated and shares identity
\* with no stored row: changing a field of a returned row changes no row of
\* any table, and a later UPDATE of the table changes no row returned before.
C12_SelectRowsAreFresh ==
  /\ WroteReturnedRow => Stored = old
  /\ UpdatedAfterSelect => Objects(held) = ret.rows

-----------------------------------------------------------------------------
(* Bulk insert *)

\* an array of records was inserted through query or through insert
RanBulkInsert ==
  \/ ret.kind # "none" /\ sql = InsertStatement /\ params.hasItems
  \/ arg.op = "bulk"

BulkItems == IF arg.op = "bulk" THEN arg.list ELSE params.items

\* the positions of the items that the schema of t rejects
Violating == {k \in 1..Len(BulkItems) : SchemaViolated(schemas["t"], BulkItems[k])}

FirstViolating == CHOOSE k \in Violating : \A j \in Violating : k <= j

\* the row is the item, with id and createdAt besides
HoldsItem(row, item) ==
  /\ DOMAIN row = DOMAIN item \cup {"id", "createdAt"}
  /\ \A f \in DOMAIN item : row[f] = item[f]

\* C13: a bulk INSERT of items i1..in whose first schema-violating item is
\* ik raises an error, and afterwards the table holds its previous rows
\* followed by exactly i1..i(k-1) in order: the items before ik stay
\* committed, ik and every later item are absent.
C13_BulkInsertStopsAtFirstViolation ==
  (RanBulkInsert /\ "t" \in DOMAIN schemas /\ Violating # {}) =>
    LET before == TableOrEmpty(old, "t")
    IN  /\ ret = Thrown
        /\ Len(data["t"]) = Len(before) + FirstViolating - 1
        /\ SubSeq(data["t"], 1, Len(before)) = before
        /\ \A j \in 1..FirstViolating - 1 :
             HoldsItem(data["t"][Len(before) + j], BulkItems[j])

\* a bulk INSERT into a table with a row was stopped by its second item
C13_Witness ==
  /\ RanBulkInsert /\ "t" \in DOMAIN schemas /\ Violating # {}
  /\ FirstViolating = 2
  /\ TableOrEmpty(old, "t") # <<>>
  /\ ret = Thrown

-----------------------------------------------------------------------------
(* WHERE before grouping and projection *)

\* the condition of the statement: the text between WHERE and the clause
\* that follows it
ConditionText(toks) ==
  LET w == Find(toks, W("WHERE"))
      ends == {k \in w + 1..Len(toks) : toks[k] \in {W("GROUP"), W("ORDER"), W("LIMIT")}}
      end == IF ends = {} THEN Len(toks) + 1 ELSE CHOOSE k \in ends : \A j \in ends : k <= j
  IN  SubSeq(toks, w + 1, end - 1)

\* a SELECT with a WHERE, on one table or on a join, has returned rows
RanWhereSelect ==
  /\ ret.kind = "rows"
  /\ sql \in SelectStatements \cup OrderStatements \cup GroupStatements \cup JoinWhereStatements
  /\ Find(sql, W("WHERE")) > 0
  /\ "t" \in DOMAIN old

\* C14: WHERE is applied to the row stream before grouping and projection
\* for every SELECT, one with a JOIN included: every row that is grouped or
\* projected, and so every row that appears in the result or is counted,
\* summed or averaged, satisfies the WHERE predicate.
C14_WhereBeforeGroupingAndProjection ==
  RanWhereSelect =>
    \A i \in 1..Len(stream) : _parseWhere(old, ConditionText(sql), stream[i]) = "T"

-----------------------------------------------------------------------------
(* BETWEEN and NOT BETWEEN: the evaluator that has these branches, behind    *)
(* the parser that splits a clause into conditions                           *)

\* cond.match(/^(\w+)\s+BETWEEN\s+(\S+)\s+AND\s+(\S+)$/i) succeeds
BetweenMatch(cond) ==
  Len(cond) = 5 /\ IsWord(cond[1]) /\ cond[2] = W("BETWEEN") /\ cond[4] = W("AND")

\* cond.match(/^(\w+)\s+NOT\s+BETWEEN\s+(\S+)\s+AND\s+(\S+)$/i) succeeds
NotBetweenMatch(cond) ==
  /\ Len(cond) = 6 /\ IsWord(cond[1]) /\ cond[2] = W("NOT") /\ cond[3] = W("BETWEEN")
  /\ cond[5] = W("AND")

\* _evalCondition(row, cond) for a cond without IN, LIKE or IS, which the
\* branches for these need: the BETWEEN branch, the NOT BETWEEN branch and
\* the comparison
EvalRange(row, cond) ==
  IF BetweenMatch(cond)
  THEN /\ LessEq(_parseValue(cond[3]), Get(row, Name(cond[1])))
       /\ LessEq(Get(row, Name(cond[1])), _parseValue(cond[5]))
  ELSE IF NotBetweenMatch(cond)
  THEN \/ Less(Get(row, Name(cond[1])), _parseValue(cond[4]))
       \/ Less(_parseValue(cond[6]), Get(row, Name(cond[1])))
  ELSE EvalComparison(row, cond)

\* _parseWhere(str)(row) with this evaluator: every part between ANDs has a
\* part between ORs that is true
ParseWhereRange(str, row) ==
  LET andParts == SplitOn(str, W("AND"))
      Some(orParts) == \E j \in 1..Len(orParts) : EvalRange(row, orParts[j])
  IN  \A i \in 1..Len(andParts) : Some(SplitOn(andParts[i], W("OR")))

\* the clause  f [NOT] BETWEEN lo AND hi
RangeText(negate, lo, hi) ==
  Words(IF negate THEN <<"f", "NOT", "BETWEEN">> ELSE <<"f", "BETWEEN">>)
    \o <<NumText(lo), W("AND"), NumText(hi)>>

\* the values of f and the ends of the range
FieldValues == 0..5

RangeEnds == 1..3

\* the clause run through the parser on a row with a numeric field; arg keeps
\* what the evaluator answers for the whole clause, and what the predicate of
\* SecureLocalDB answers
ApplyRange ==
  /\ arg.op = "none"
  /\ \E f \in FieldValues, lo \in RangeEnds, hi \in RangeEnds, negate \in BOOLEAN :
       /\ arg' = [op |-> "range", f |-> f, lo |-> lo, hi |-> hi, negate |-> negate,
                  whole |-> EvalRange([f |-> Num(f)], RangeText(negate, lo, hi)),
                  secure |-> _parseWhere(data, RangeText(negate, lo, hi), [f |-> Num(f)])]
       /\ out' = IF ParseWhereRange(RangeText(negate, lo, hi), [f |-> Num(f)]) THEN "T" ELSE "F"
  /\ UNCHANGED <<data, schemas, uuids, sql, params, ret, old, stream, heap, held>>

SpecRange == Init /\ [][ApplyRange]_vars

\* lo <= f <= hi, or its negation
InRange == arg.lo <= arg.f /\ arg.f <= arg.hi

\* C15: a WHERE clause  f BETWEEN lo AND hi, run through the predicate
\* parser and the evaluator, is true for exactly the rows with lo <= f <= hi,
\* both ends included;  f NOT BETWEEN lo AND hi  is true for exactly the
\* rows with f < lo or f > hi.
C15_BetweenIsInclusive ==
  arg.op = "range" => ((out = "T") <=> (IF arg.negate THEN ~InRange ELSE InRange))

-----------------------------------------------------------------------------
(* The row stream of a join *)

\* a statement  SELECT <fields> FROM t [kind] JOIN <table> ON t.cat = <table>.k
\* has run
RanJoin == ret.kind # "none" /\ sql \in JoinStatements

\* the kind of join the statement names; INNER when it names none
KindAsked ==
  LET k == sql[Find(sql, W("JOIN")) - 1]
  IN  IF k \in {W("INNER"), W("LEFT"), W("RIGHT"), W("FULL")} THEN k[1] ELSE "INNER"

\* left row i and right row j have equal keys
KeyEqual(i, j) == StrictEq(Get(LeftTable[i], "cat"), Get(RightTable[j], "k"))

\* the fields of l under the alias t and the fields of r under the right alias
MergedRow(l, r) ==
  [key \in {"t." \o f : f \in DOMAIN l} \cup {RightName \o "." \o f : f \in DOMAIN r} |->
     IF \E f \in DOMAIN l : key = "t." \o f
     THEN l[CHOOSE f \in DOMAIN l : key = "t." \o f]
     ELSE r[CHOOSE f \in DOMAIN r : key = RightName \o "." \o f]]

\* a row of the fields of the first row of the table, all null
NullRow(table) == IF table = <<>> THEN <<>> ELSE [f \in DOMAIN table[1] |-> Null]

RECURSIVE PairsOf(_, _)
\* the merged rows of left row i and the right rows from j on that it equals
PairsOf(i, j) ==
  IF j > Len(RightTable) THEN <<>>
  ELSE (IF KeyEqual(i, j) THEN <<MergedRow(LeftTable[i], RightTable[j])>> ELSE <<>>)
         \o PairsOf(i, j + 1)

RECURSIVE LeftPassFrom(_)
\* the left pass from left row i on: its pairs, or its padded row when it has
\* no pair and the join is LEFT or FULL
LeftPassFrom(i) ==
  IF i > Len(LeftTable) THEN <<>>
  ELSE (IF PairsOf(i, 1) # <<>> THEN PairsOf(i, 1)
        ELSE IF KindAsked \in {"LEFT", "FULL"}
        THEN <<MergedRow(LeftTable[i], NullRow(RightTable))>>
        ELSE <<>>) \o LeftPassFrom(i + 1)

\* the right rows, by position, that no left row is key-equal to
UnmatchedRight ==
  {j \in 1..Len(RightTable) : \A i \in 1..Len(LeftTable) : ~KeyEqual(i, j)}

RECURSIVE RightPassFrom(_)
\* one padded row for each unmatched right row from j on
RightPassFrom(j) ==
  IF j > Len(RightTable) THEN <<>>
  ELSE (IF j \in UnmatchedRight THEN <<MergedRow(NullRow(LeftTable), RightTable[j])>> ELSE <<>>)
         \o RightPassFrom(j + 1)

\* the number of pairs of a left and a right row with equal keys
MatchingPairs ==
  Cardinality({p \in (1..Len(LeftTable)) \X (1..Len(RightTable)) : KeyEqual(p[1], p[2])})

\* row r carries the fields of l under the alias
Carries(r, alias, l) ==
  \A f \in DOMAIN l : alias \o "." \o f \in DOMAIN r /\ r[alias \o "." \o f] = l[f]

\* C16: the row stream of a join is one merged alias-prefixed row for each
\* pair of a left and a right row with equal keys, in left-major order,
\* interleaved in the left pass with one null-padded row per unmatched left
\* row for LEFT and FULL only, followed, for RIGHT and FULL only, by exactly
\* one null-padded row for each right row that matched no left row.  INNER
\* returns only the matching pairs, and FULL returns every left row and every
\* right row at least once.
C16_JoinRowStream ==
  RanJoin =>
    /\ stream = LeftPassFrom(1)
                  \o (IF KindAsked \in {"RIGHT", "FULL"} THEN RightPassFrom(1) ELSE <<>>)
    /\ KindAsked = "INNER" => Len(stream) = MatchingPairs
    /\ KindAsked = "FULL" =>
         /\ \A i \in 1..Len(LeftTable) :
              \E k \in 1..Len(stream) : Carries(stream[k], "t", LeftTable[i])
         /\ \A j \in 1..Len(RightTable) :
              \E k \in 1..Len(stream) : Carries(stream[k], RightName, RightTable[j])

\* a FULL JOIN with a matching pair and a right row that matched no left row
C16_Witness ==
  /\ RanJoin
  /\ KindAsked = "FULL"
  /\ MatchingPairs > 0
  /\ UnmatchedRight # {}
  /\ Len(stream) = MatchingPairs + Cardinality(UnmatchedRight) + Cardinality(UnmatchedLeft)

-----------------------------------------------------------------------------
(* update with a where object *)

\* update(table, updates, whereObj) was called once with a whereObj and
\* returned a count
RanUpdateWhere == arg.op = "update" /\ arg.where.has /\ ret.kind = "count"

\* the rows, by position, all of whose whereObj fields are strictly equal
WhereRowsOf(rows) == {i \in 1..Len(rows) : WhereObjMatches(arg.where.obj, rows[i])}

\* C17: update(table, updates, whereObj) with a whereObj that is not null
\* changes exactly the rows for which every field of whereObj is strictly
\* equal to the row's field, returns the number of those rows and leaves
\* every other row unchanged, whatever fields, id included, updates has.
C17_UpdateChangesWhereRowsOnly ==
  RanUpdateWhere =>
    LET rows == old[arg.table]
    IN  /\ ret = Count(Cardinality(WhereRowsOf(rows)))
        /\ data[arg.table] = [i \in 1..Len(rows) |->
                                IF i \in WhereRowsOf(rows) THEN Merge(rows[i], arg.updates)
                                ELSE rows[i]]

=============================================================================
